---------------------------- MODULE Spec2Model ----------------------------
(***************************************************************************)
(* Model of the alert -> technique identifier -> incident correlation      *)
(* core (modules/ontology.py, modules/alerts.py), of the lexical retrieval *)
(* index (modules/rag.py), of the prompt builder (modules/llm.py) and of   *)
(* the memoized correlation of the page script (streamlit_app.py).         *)
(*                                                                         *)
(* Python strings are modelled as sequences of one-character strings, so   *)
(* that strip, split, upper, replace, the SPARQL string functions and the  *)
(* regular expression are computed character by character.                 *)
(*                                                                         *)
(* Ten specifications share the module:                                  *)
(*   SpecNorm    - the two _normalize_tid applied to bounded strings       *)
(*   SpecCorr    - get_incidents_by_tech over bounded RDF graphs           *)
(*   SpecExtract - extract_tech_ids_universal over bounded alert batches   *)
(*   SpecRag     - SimpleRAG built over a bounded corpus, then searched    *)
(*   SpecSnippet - rag._snippet applied to bounded strings and limits      *)
(*   SpecLoad    - load_wazuh_alerts_any over bounded payloads             *)
(*   SpecPrompt  - llm.build_prompt over bounded arguments                 *)
(*   SpecSupport - the four supporting operations of modules/ontology.py   *)
(*   SpecMeta    - the metadata extractors of modules/alerts.py            *)
(*   SpecApp     - the script runs of streamlit_app.py over a session      *)
(***************************************************************************)
EXTENDS Integers, Sequences, FiniteSets, TLC

VARIABLES
    nraw,       \* SpecNorm: the raw string handed to _normalize_tid
    napps,      \* SpecNorm: results of the successive applications
    nalerts,    \* SpecNorm: result of alerts._normalize_tid on the same string
    g,          \* SpecCorr: the RDF graph, a set of triples
    cq,         \* SpecCorr: tech_ids of the last get_incidents_by_tech call
    cfail,      \* SpecCorr: whether g.query raised in the last call
    cret,       \* SpecCorr: the list returned by the last call
    cpath,      \* SpecCorr: which return statement produced cret
    shape,      \* SpecExtract: the kind of batch handed over
    records,    \* SpecExtract: the alert records of the batch
    epc,        \* SpecExtract: position inside extract_tech_ids_universal
    ri,         \* SpecExtract: number of items of the batch already visited
    pending,    \* SpecExtract: new_items still to be iterated by extend_unique
    tids,       \* SpecExtract: the local list tids
    out,        \* SpecExtract: the returned list
    docs,       \* SpecRag: SimpleRAG.docs
    vectors,    \* SpecRag: SimpleRAG.vectors
    norms,      \* SpecRag: SimpleRAG.norms, each held as its square
    rq,         \* SpecRag: query of the last search call
    rk,         \* SpecRag: top_k of the last search call, << >> when omitted
    rres,       \* SpecRag: the list returned by the last search call
    rpc,        \* SpecRag: "built", then "searched" once search was called
    stext,      \* SpecSnippet: text handed to _snippet
    slimit,     \* SpecSnippet: limit handed to _snippet
    ssnip,      \* SpecSnippet: << >>, then the returned snippet
    lin,        \* SpecLoad: text_or_obj handed to load_wazuh_alerts_any
    lpc,        \* SpecLoad: "start", then "done" or "raised"
    lout,       \* SpecLoad: the returned value
    pargs,      \* SpecPrompt: the arguments of build_prompt
    ppc,        \* SpecPrompt: "start", then "done"
    prompt,     \* SpecPrompt: the returned prompt
    sop,        \* SpecSupport: the supporting operation called
    sarg,       \* SpecSupport: its argument, an incident IRI or a list of actions
    sfail,      \* SpecSupport: whether g.query raised in the call
    sret,       \* SpecSupport: the list returned by the call
    spath,      \* SpecSupport: which return statement produced sret
    mshape,     \* SpecMeta: the kind of batch handed over
    mrecords,   \* SpecMeta: the alert records of the batch
    mop,        \* SpecMeta: "one" for extract_alert_metadata, "all" for the list form
    mpc,        \* SpecMeta: "start", then "done" or "raised"
    mout,       \* SpecMeta: the returned metadata, as a list of entries
    obj_alert_default,        \* SpecApp: the alert of the default file
    up,                       \* SpecApp: what the file uploader holds
    ss_obj_alert,             \* SpecApp: st.session_state["obj_alert"]
    ss_tech_ids,              \* SpecApp: st.session_state["tech_ids"]
    ss_incidents,             \* SpecApp: st.session_state["incidents"]
    ss_incidents_cache_key,   \* SpecApp: st.session_state["incidents_cache_key"]
    apc,                      \* SpecApp: position of the script run, "idle" between runs
    aend                      \* SpecApp: how the last run ended

vars == << nraw, napps, nalerts, g, cq, cfail, cret, cpath,
           shape, records, epc, ri, pending, tids, out,
           docs, vectors, norms, rq, rk, rres, rpc, stext, slimit, ssnip,
           lin, lpc, lout, pargs, ppc, prompt,
           sop, sarg, sfail, sret, spath, mshape, mrecords, mop, mpc, mout,
           obj_alert_default, up, ss_obj_alert, ss_tech_ids, ss_incidents,
           ss_incidents_cache_key, apc, aend >>

normVars == << nraw, napps, nalerts >>
corrVars == << g, cq, cfail, cret, cpath >>
extractVars == << shape, records, epc, ri, pending, tids, out >>
ragVars == << docs, vectors, norms, rq, rk, rres, rpc >>
snippetVars == << stext, slimit, ssnip >>
loadVars == << lin, lpc, lout >>
promptVars == << pargs, ppc, prompt >>
coreVars == << normVars, corrVars, extractVars >>
supVars == << sop, sarg, sfail, sret, spath >>
metaVars == << mshape, mrecords, mop, mpc, mout >>
appVars == << obj_alert_default, up, ss_obj_alert, ss_tech_ids, ss_incidents,
             ss_incidents_cache_key, apc, aend >>
extVars == << supVars, metaVars, appVars >>
auxVars == << ragVars, snippetVars, loadVars, promptVars, extVars >>

(***************************************************************************)
(* Bounds of the model.                                                    *)
(***************************************************************************)
MaxStrLen == 4      \* longest raw string handed to _normalize_tid
MaxApply == 2       \* successive applications of _normalize_tid
MaxTriples == 4     \* most triples in a graph
MaxIds == 1         \* most identifiers in one query
MaxTokens == 2      \* most tokens concatenated into a free-text field
MaxItems == 2       \* most items in a list, record-stream or hit batch
MaxDocs == 4        \* most documents in a corpus
MaxTopK == 3        \* largest top_k handed to search
MaxSnipLen == 5     \* longest text handed to _snippet
MaxLimit == 4       \* largest limit handed to _snippet
MaxLines == 2       \* most lines in a text payload
MaxIriLen == 2      \* longest incident IRI handed to build_prompt

(***************************************************************************)
(* Characters and the Python string built-ins the code uses.               *)
(***************************************************************************)
Range(f) == { f[i] : i \in DOMAIN f }

LowerChars == << "a", "b", "c", "d", "e", "f", "g", "h", "i", "j", "k", "l", "m",
                 "n", "o", "p", "q", "r", "s", "t", "u", "v", "w", "x", "y", "z" >>

UpperChars == << "A", "B", "C", "D", "E", "F", "G", "H", "I", "J", "K", "L", "M",
                 "N", "O", "P", "Q", "R", "S", "T", "U", "V", "W", "X", "Y", "Z" >>

DigitChars == << "0", "1", "2", "3", "4", "5", "6", "7", "8", "9" >>

\* Code-point order of the characters that occur in the model (sorted()
\* compares Python strings by code point).
CharOrder == << " ", "\"", "#", ".", "/" >> \o DigitChars \o UpperChars
             \o << "_" >> \o LowerChars

Ord(c) == CHOOSE i \in DOMAIN CharOrder : CharOrder[i] = c

\* str.isspace(), for the white space of the model
IsSpace(c) == c \in { " ", "\n" }

UpperChar(c) ==
    IF \E i \in DOMAIN LowerChars : LowerChars[i] = c
    THEN UpperChars[CHOOSE i \in DOMAIN LowerChars : LowerChars[i] = c]
    ELSE c

LowerChar(c) ==
    IF \E i \in DOMAIN UpperChars : UpperChars[i] = c
    THEN LowerChars[CHOOSE i \in DOMAIN UpperChars : UpperChars[i] = c]
    ELSE c

\* str.upper()
Upper(s) == [ i \in 1..Len(s) |-> UpperChar(s[i]) ]

\* str.replace(a, b) for one-character a and b
Replace(s, a, b) == [ i \in 1..Len(s) |-> IF s[i] = a THEN b ELSE s[i] ]

RECURSIVE LStrip(_)
LStrip(s) == IF s # << >> /\ IsSpace(Head(s)) THEN LStrip(Tail(s)) ELSE s

RECURSIVE RStrip(_)
RStrip(s) ==
    IF s # << >> /\ IsSpace(s[Len(s)]) THEN RStrip(SubSeq(s, 1, Len(s) - 1)) ELSE s

\* str.strip()
Strip(s) == RStrip(LStrip(s))

\* c in s
Contains(s, c) == \E i \in 1..Len(s) : s[i] = c

\* s.split(c): the segments between the occurrences of c, left to right
RECURSIVE Split(_, _)
Split(s, c) ==
    IF ~Contains(s, c) THEN << s >>
    ELSE LET i == CHOOSE k \in 1..Len(s) : s[k] = c /\ \A j \in 1..(k - 1) : s[j] # c
         IN  << SubSeq(s, 1, i - 1) >> \o Split(SubSeq(s, i + 1, Len(s)), c)

\* s.rsplit(c, 1): at most one split, made at the right-most occurrence of c
RSplit1(s, c) ==
    IF ~Contains(s, c) THEN << s >>
    ELSE LET i == CHOOSE k \in 1..Len(s) : s[k] = c /\ \A j \in (k + 1)..Len(s) : s[j] # c
         IN  << SubSeq(s, 1, i - 1), SubSeq(s, i + 1, Len(s)) >>

Last(q) == q[Len(q)]

(***************************************************************************)
(* modules/ontology.py: lastfrag and _normalize_tid                        *)
(***************************************************************************)
\* Mutant: the fragment is taken after the first '#' and up to the next one.
lastfrag_first(iri) ==
    IF Contains(iri, "#") THEN Split(iri, "#")[2]
    ELSE IF Contains(iri, "/") THEN Last(RSplit1(iri, "/"))
    ELSE iri

lastfrag(iri) ==
    IF Contains(iri, "#") THEN Last(Split(iri, "#"))
    ELSE IF Contains(iri, "/") THEN Last(RSplit1(iri, "/"))
    ELSE iri

normalize_tid(value) ==
    IF value = << >> THEN << >>
    ELSE Replace(Upper(lastfrag(Strip(value))), ".", "_")

\* modules/alerts.py: _normalize_tid
alerts_normalize_tid(tid) == Replace(Upper(Strip(tid)), ".", "_")

(***************************************************************************)
(* SpecNorm: ontology._normalize_tid applied to a raw string, then to its  *)
(* own result; alerts._normalize_tid applied to the same raw string.       *)
(***************************************************************************)
NormChars == { " ", "#", "/", ".", "t", "T" }

RECURSIVE StringsUpTo(_, _)
StringsUpTo(chars, n) ==
    IF n = 0 THEN { << >> }
    ELSE LET shorter == StringsUpTo(chars, n - 1)
         IN  shorter \cup { Append(s, c) : s \in shorter, c \in chars }

NormInputs == StringsUpTo(NormChars, MaxStrLen)

CorrIdle ==
    /\ g = { }
    /\ cq = << >>
    /\ cfail = FALSE
    /\ cret = << >>
    /\ cpath = "none"

ExtractIdle ==
    /\ shape = "single"
    /\ records = << >>
    /\ epc = "idle"
    /\ ri = 0
    /\ pending = { }
    /\ tids = << >>
    /\ out = << >>

NormIdle ==
    /\ nraw = << >>
    /\ napps = << >>
    /\ nalerts = << >>

RagIdle ==
    /\ docs = << >>
    /\ vectors = << >>
    /\ norms = << >>
    /\ rq = << >>
    /\ rk = << >>
    /\ rres = << >>
    /\ rpc = "idle"

SnippetIdle ==
    /\ stext = << >>
    /\ slimit = 0
    /\ ssnip = << >>

LoadIdle ==
    /\ lin = [ kind |-> "none" ]
    /\ lpc = "idle"
    /\ lout = << >>

PromptIdle ==
    /\ pargs = [ incident_iri |-> << >> ]
    /\ ppc = "idle"
    /\ prompt = << >>

SupIdle ==
    /\ sop = "none"
    /\ sarg = << >>
    /\ sfail = FALSE
    /\ sret = << >>
    /\ spath = "none"

MetaIdle ==
    /\ mshape = "single"
    /\ mrecords = << >>
    /\ mop = "none"
    /\ mpc = "idle"
    /\ mout = << >>

AppIdle ==
    /\ obj_alert_default = [ t |-> "null" ]
    /\ up = [ kind |-> "none" ]
    /\ ss_obj_alert = [ t |-> "null" ]
    /\ ss_tech_ids = << >>
    /\ ss_incidents = << >>
    /\ ss_incidents_cache_key = << >>
    /\ apc = "off"
    /\ aend = "none"

ExtIdle == SupIdle /\ MetaIdle /\ AppIdle

AuxIdle == RagIdle /\ SnippetIdle /\ LoadIdle /\ PromptIdle /\ ExtIdle

CoreIdle == NormIdle /\ CorrIdle /\ ExtractIdle

InitNorm ==
    /\ nraw \in NormInputs
    /\ napps = << >>
    /\ nalerts = << >>
    /\ CorrIdle
    /\ ExtractIdle
    /\ AuxIdle

NormalizeCall ==
    /\ Len(napps) < MaxApply
    /\ napps' = Append(napps, normalize_tid(IF napps = << >> THEN nraw ELSE Last(napps)))
    /\ UNCHANGED << nraw, nalerts, corrVars, extractVars, auxVars >>

AlertsNormalizeCall ==
    /\ nalerts = << >>
    /\ nalerts' = << alerts_normalize_tid(nraw) >>
    /\ UNCHANGED << nraw, napps, corrVars, extractVars, auxVars >>

NextNorm == NormalizeCall \/ AlertsNormalizeCall

SpecNorm == InitNorm /\ [][NextNorm]_vars

(***************************************************************************)
(* Claims about _normalize_tid (SpecNorm).                                 *)
(***************************************************************************)
\* The steps of section 4.1, written with positions instead of split/strip.
ClaimTrim(s) ==
    LET keep == { i \in 1..Len(s) : ~IsSpace(s[i]) }
    IN  IF keep = { } THEN << >>
        ELSE SubSeq(s, CHOOSE i \in keep : \A j \in keep : i <= j,
                       CHOOSE i \in keep : \A j \in keep : j <= i)

ClaimAfterLast(s, c) ==
    LET at == { i \in 1..Len(s) : s[i] = c }
    IN  IF at = { } THEN s
        ELSE SubSeq(s, (CHOOSE i \in at : \A j \in at : j <= i) + 1, Len(s))

ClaimFragment(s) ==
    IF \E i \in 1..Len(s) : s[i] = "#" THEN ClaimAfterLast(s, "#")
    ELSE ClaimAfterLast(s, "/")

ClaimNormalize(x) ==
    LET f == ClaimFragment(ClaimTrim(x))
    IN  [ i \in 1..Len(f) |-> IF f[i] = "." THEN "_" ELSE UpperChar(f[i]) ]

\* C6 (as claimed): _normalize_tid is idempotent, normalize(normalize(x)) =
\* normalize(x) for every string x, also with '#' and '/' together and with
\* whitespace right after the last '#' or '/'.
C6_Idempotent ==
    Len(napps) >= 2 => napps[2] = napps[1]

\* C7: for every string, _normalize_tid returns trim, then the text after the
\* last '#' (else after the last '/', else the value), then upper-case, then
\* every '.' replaced by '_'; the empty string gives the empty string.
C7_NormalizeSteps ==
    Len(napps) >= 1 =>
        /\ napps[1] = ClaimNormalize(nraw)
        /\ (nraw = << >> => napps[1] = << >>)

\* C7 witness: an input with leading whitespace, two '#' and a lower-case
\* letter in the last fragment has been normalized.
C7_Witness ==
    /\ Len(napps) >= 1
    /\ nraw = << " ", "#", "#", "t" >>
    /\ napps[1] = << "T" >>

\* C18: the two normalizers agree on every raw identifier: the one used on
\* identifiers coming from alerts returns the canonical form that the one
\* used on graph values and query identifiers returns.
C18_NormalizersAgree ==
    (napps # << >> /\ nalerts # << >>) => nalerts[1] = napps[1]

(***************************************************************************)
(* The RDF graph (rdflib.Graph): a set of triples.  Every term is the      *)
(* string str(term) of the node.                                           *)
(***************************************************************************)
Triple(su, pr, ob) == [ s |-> su, p |-> pr, o |-> ob ]

VerisIncident == << "I", "n", "c" >>

IncidentIRIs == { << "i", "1" >>, << "i", "2" >> }

ActionIRIs == { << "a", "1" >> }

\* Technique terms as they may be written in a graph: a '#'-IRI (with a
\* lower-case letter and a '.'), a '/'-IRI with two '/', and a plain literal.
TechHash == << "h", "/", "#", "t", ".", "1" >>
TechSlash == << "h", "/", "/", "T", "_", "1" >>
TechPlain == << "T", "2" >>

TechTerms == { TechHash, TechSlash, TechPlain }

AllTriples ==
    { Triple(i, "rdf:type", VerisIncident) : i \in IncidentIRIs }
    \cup { Triple(i, "bridge:involvesTechnique", t) : i \in IncidentIRIs, t \in TechTerms }
    \cup { Triple(i, "bridge:hasAction", a) : i \in IncidentIRIs, a \in ActionIRIs }
    \cup { Triple(a, "bridge:relatesToTechnique", t) : a \in ActionIRIs, t \in TechTerms }

RECURSIVE SubsetsUpTo(_, _)
SubsetsUpTo(S, n) ==
    IF n = 0 THEN { { } }
    ELSE LET smaller == SubsetsUpTo(S, n - 1)
         IN  smaller \cup { T \cup { x } : T \in smaller, x \in S }

Graphs == SubsetsUpTo(AllTriples, MaxTriples)

\* g.objects(subject, predicate)
Objects(gr, su, pr) == { tr.o : tr \in { x \in gr : x.s = su /\ x.p = pr } }

\* g.subjects(predicate, object)
Subjects(gr, pr, ob) == { tr.s : tr \in { x \in gr : x.p = pr /\ x.o = ob } }

(***************************************************************************)
(* sorted() on Python strings                                              *)
(***************************************************************************)
RECURSIVE StrLess(_, _)
StrLess(a, b) ==
    IF b = << >> THEN FALSE
    ELSE IF a = << >> THEN TRUE
    ELSE IF Head(a) # Head(b) THEN Ord(Head(a)) < Ord(Head(b))
    ELSE StrLess(Tail(a), Tail(b))

RECURSIVE Insert(_, _)
Insert(x, q) ==
    IF q = << >> THEN << x >>
    ELSE IF StrLess(x, Head(q)) THEN << x >> \o q
    ELSE << Head(q) >> \o Insert(x, Tail(q))

\* sorted(list): stable, ascending
RECURSIVE Sorted(_)
Sorted(q) == IF q = << >> THEN << >> ELSE Insert(Last(q), Sorted(SubSeq(q, 1, Len(q) - 1)))

\* The orders in which a Python set or a SPARQL result can be iterated.
Orderings(S) == { q \in [ 1..Cardinality(S) -> S ] : Range(q) = S }

(***************************************************************************)
(* modules/ontology.py: _techs_from_incident                               *)
(***************************************************************************)
techs_from_incident(gr, incident) ==
    { normalize_tid(t) : t \in Objects(gr, incident, "bridge:involvesTechnique") }
    \cup { normalize_tid(t) :
             t \in UNION { Objects(gr, a, "bridge:relatesToTechnique") :
                             a \in Objects(gr, incident, "bridge:hasAction") } }

(***************************************************************************)
(* The SPARQL query of get_incidents_by_tech, evaluated by the SPARQL 1.1  *)
(* algebra: BGP, two LeftJoins, three Extends, Join with VALUES, Filter,   *)
(* Project, Distinct.                                                      *)
(***************************************************************************)
Unbound == << "UNBOUND" >>

\* STRAFTER(a, c): the text after the FIRST occurrence of c, "" without one
StrAfter(a, c) ==
    IF ~Contains(a, c) THEN << >>
    ELSE LET i == CHOOSE k \in 1..Len(a) : a[k] = c /\ \A j \in 1..(k - 1) : a[j] # c
         IN  SubSeq(a, i + 1, Len(a))

\* LCASE
Lower(s) == [ i \in 1..Len(s) |-> LowerChar(s[i]) ]

\* OPTIONAL { ... ?v }: one solution per value, or one with ?v unbound
OptionalValues(S) == IF S = { } THEN { Unbound } ELSE S

\* COALESCE(?t1, ?t2)
Coalesce(t1, t2) == IF t1 # Unbound THEN t1 ELSE t2

\* BIND(REPLACE(STRAFTER(STR(?t), c), "\\.", "_") AS ?v): unbound on an error
BindFragment(t, c) == IF t = Unbound THEN Unbound ELSE Replace(StrAfter(t, c), ".", "_")

\* FILTER( LCASE(?h) = LCASE(?tid) || LCASE(?s) = LCASE(?tid) ): an error
\* (unbound ?h and ?s) removes the solution
FilterHolds(h, s, tid) ==
    /\ h # Unbound
    /\ s # Unbound
    /\ (Lower(h) = Lower(tid) \/ Lower(s) = Lower(tid))

\* The string literal "{t}" of the VALUES block is malformed when t holds a
\* quote: the parser raises.
QueryParses(tids_norm) == \A t \in tids_norm : ~Contains(t, "\"")

\* ?incident a veris:Incident . OPTIONAL { ... ?t1 } OPTIONAL { ... ?t2 }
\* BIND(COALESCE(?t1, ?t2) AS ?t) VALUES ?tid { ... }
SparqlSolutions(gr, tids_norm) ==
    UNION { { [ incident |-> i, t |-> Coalesce(t1, t2), tid |-> q ] :
                t1 \in OptionalValues(Objects(gr, i, "bridge:involvesTechnique")),
                t2 \in OptionalValues(
                         UNION { Objects(gr, a, "bridge:relatesToTechnique") :
                                   a \in Objects(gr, i, "bridge:hasAction") }),
                q \in tids_norm } :
            i \in Subjects(gr, "rdf:type", VerisIncident) }

\* SELECT DISTINCT ?incident ... FILTER(...)
sparql_incidents(gr, tids_norm) ==
    { m.incident :
        m \in { x \in SparqlSolutions(gr, tids_norm) :
                  FilterHolds(BindFragment(x.t, "#"), BindFragment(x.t, "/"), x.tid) } }

(***************************************************************************)
(* modules/ontology.py: get_incidents_by_tech                              *)
(***************************************************************************)
\* tids_norm = { _normalize_tid(t) for t in tech_ids if t }
tids_norm_of(tech_ids) ==
    { normalize_tid(tech_ids[k]) : k \in { j \in DOMAIN tech_ids : tech_ids[j] # << >> } }

SortedSet(S) == Sorted(CHOOSE q \in Orderings(S) : TRUE)

\* Mutant: the scan returns the sorted query identifiers instead of
\* incidents_set.
fallback_scan_mixup(gr, tids_norm) == SortedSet(tids_norm)

\* 2) Fallback scan RDF
fallback_scan(gr, tids_norm) ==
    SortedSet({ inc \in Subjects(gr, "rdf:type", VerisIncident) :
                  techs_from_incident(gr, inc) \cap tids_norm # { } })

\* Whether the try block raises: the backend fails, or the query is malformed.
query_raises(tech_ids, fail) == fail \/ ~QueryParses(tids_norm_of(tech_ids))

\* Mutant: an empty identifier list builds a query without VALUES and FILTER
\* and so selects every incident.
get_incidents_by_tech_matchall(gr, tech_ids, fail) ==
    IF tech_ids = << >>
    THEN { [ path |-> "empty", ret |-> q ] :
             q \in Orderings(Subjects(gr, "rdf:type", VerisIncident)) }
    ELSE LET tn == tids_norm_of(tech_ids)
             rows == IF query_raises(tech_ids, fail) THEN { } ELSE sparql_incidents(gr, tn)
         IN  IF rows # { }
             THEN { [ path |-> "primary", ret |-> q ] : q \in Orderings(rows) }
             ELSE { [ path |-> "fallback", ret |-> fallback_scan(gr, tn) ] }

\* Mutant: a primary query that raises ends the call with an empty list,
\* the scan runs only after an empty result.
get_incidents_by_tech_no_scan_on_error(gr, tech_ids, fail) ==
    IF tech_ids = << >>
    THEN { [ path |-> "empty", ret |-> << >> ] }
    ELSE LET tn == tids_norm_of(tech_ids)
             rows == IF query_raises(tech_ids, fail) THEN { } ELSE sparql_incidents(gr, tn)
         IN  IF query_raises(tech_ids, fail)
             THEN { [ path |-> "fallback", ret |-> << >> ] }
             ELSE IF rows # { }
             THEN { [ path |-> "primary", ret |-> q ] : q \in Orderings(rows) }
             ELSE { [ path |-> "fallback", ret |-> fallback_scan(gr, tn) ] }

\* The possible returns of get_incidents_by_tech(g, tech_ids): the rows of a
\* SPARQL result come in an order the backend chooses.
get_incidents_by_tech(gr, tech_ids, fail) ==
    IF tech_ids = << >>
    THEN { [ path |-> "empty", ret |-> << >> ] }
    ELSE LET tn == tids_norm_of(tech_ids)
             rows == IF query_raises(tech_ids, fail) THEN { } ELSE sparql_incidents(gr, tn)
         IN  IF rows # { }
             THEN { [ path |-> "primary", ret |-> q ] : q \in Orderings(rows) }
             ELSE { [ path |-> "fallback", ret |-> fallback_scan(gr, tn) ] }

(***************************************************************************)
(* SpecCorr: a graph loaded once and read-only, then one correlation call  *)
(* with any identifier list.  The call reads nothing but its arguments, so *)
(* one call per behaviour covers every call of a longer run.               *)
(***************************************************************************)
\* Raw identifiers of a query: "t.1", "T2", a blank, the empty string, and
\* one holding a quote.
RawIds == { << "t", ".", "1" >>, << "T", "2" >>, << " " >>, << >>,
            << "T", "2", "\"" >> }

RECURSIVE SeqsUpTo(_, _)
SeqsUpTo(S, n) ==
    IF n = 0 THEN { << >> }
    ELSE LET shorter == SeqsUpTo(S, n - 1)
         IN  shorter \cup { Append(q, x) : q \in shorter, x \in S }

Queries == SeqsUpTo(RawIds, MaxIds)

InitCorr ==
    /\ g \in Graphs
    /\ cq = << >>
    /\ cfail = FALSE
    /\ cret = << >>
    /\ cpath = "none"
    /\ NormIdle
    /\ ExtractIdle
    /\ AuxIdle

GetIncidentsByTech ==
    /\ cpath = "none"
    /\ \E tech_ids \in Queries, fail \in BOOLEAN :
          \E r \in get_incidents_by_tech(g, tech_ids, fail) :
              /\ cq' = tech_ids
              /\ cfail' = (tech_ids # << >> /\ query_raises(tech_ids, fail))
              /\ cret' = r.ret
              /\ cpath' = r.path
              /\ UNCHANGED << g, normVars, extractVars, auxVars >>

NextCorr == GetIncidentsByTech

SpecCorr == InitCorr /\ [][NextCorr]_vars

(***************************************************************************)
(* Claims about get_incidents_by_tech (SpecCorr).                          *)
(***************************************************************************)
\* The matching policy of section 4.3, stated on the graph.
ClaimIncidentNodes == { tr.s : tr \in { x \in g : x.p = "rdf:type" /\ x.o = VerisIncident } }

ClaimDirectTechs(inc) ==
    { tr.o : tr \in { x \in g : x.s = inc /\ x.p = "bridge:involvesTechnique" } }

ClaimViaActionTechs(inc) ==
    { tr.o : tr \in { x \in g : x.p = "bridge:relatesToTechnique"
                                 /\ \E y \in g : /\ y.s = inc
                                                 /\ y.p = "bridge:hasAction"
                                                 /\ y.o = x.s } }

ClaimTechSet(inc) ==
    { ClaimNormalize(t) : t \in ClaimDirectTechs(inc) \cup ClaimViaActionTechs(inc) }

ClaimQuerySet == { ClaimNormalize(cq[k]) : k \in DOMAIN cq }

ClaimMatches(inc) == ClaimTechSet(inc) \cap ClaimQuerySet # { }

ClaimMatching == { inc \in ClaimIncidentNodes : ClaimMatches(inc) }

\* Every identifier of the query normalizes to a non-empty string.
NoBlankId == << >> \notin { normalize_tid(cq[k]) : k \in DOMAIN cq }

\* C1 (as claimed, here on queries without blank identifiers): whenever the
\* primary query runs without raising, for a non-empty query, the incidents
\* it selects are exactly the incidents the fallback scan selects.
C1_PrimaryEqualsFallback ==
    (cpath # "none" /\ cq # << >> /\ ~cfail /\ NoBlankId) =>
        sparql_incidents(g, tids_norm_of(cq)) = Range(fallback_scan(g, tids_norm_of(cq)))

\* C2 (as claimed, here on queries without blank identifiers):
\* get_incidents_by_tech returns exactly the Incident nodes whose normalized
\* direct-or-via-action technique set meets the normalized query set; no
\* matching incident is missing.
C2_ReturnsAllMatching ==
    (cpath # "none" /\ NoBlankId) => Range(cret) = ClaimMatching

\* C3 (as claimed): every returned IRI is an Incident node whose normalized
\* technique set holds a normalized query identifier, and none comes twice.
C3_ReturnedAreMatching ==
    cpath # "none" =>
        /\ \A k \in DOMAIN cret : cret[k] \in ClaimIncidentNodes /\ ClaimMatches(cret[k])
        /\ \A j, k \in DOMAIN cret : j # k => cret[j] # cret[k]

\* C4: an empty identifier list gives an empty result on every graph.
C4_EmptyQueryEmptyResult ==
    (cpath # "none" /\ cq = << >>) => cret = << >>

\* C4 witness: the empty list was asked of a graph holding an incident with
\* a technique, and nothing came back.
C4_Witness ==
    /\ cpath = "empty"
    /\ cq = << >>
    /\ cret = << >>
    /\ \E inc \in ClaimIncidentNodes : ClaimTechSet(inc) # { }

\* C5: on a graph with no triples every non-empty query gives an empty
\* result, whether the primary query returned nothing or raised.
C5_EmptyGraphEmptyResult ==
    (cpath # "none" /\ g = { } /\ cq # << >>) => cret = << >>

\* C5 witness: a non-empty query whose primary query raised was answered by
\* the scan of the empty graph.
C5_Witness ==
    /\ g = { }
    /\ cq = << << "T", "2" >> >>
    /\ cfail
    /\ cpath = "fallback"
    /\ cret = << >>

\* C17: whenever the primary query raises or returns no rows, for a
\* non-empty identifier list, the call returns (no error reaches the
\* caller) exactly the result of the fallback scan: the sorted Incident
\* nodes matched through edge enumeration alone.
C17_FallbackOnFailure ==
    (/\ cpath # "none"
     /\ cq # << >>
     /\ cfail \/ sparql_incidents(g, tids_norm_of(cq)) = { }) =>
        /\ cpath = "fallback"
        /\ cret = SortedSet(ClaimMatching)

\* C17 witness: the primary query raised and the scan found an incident.
C17_Witness ==
    /\ cfail
    /\ cpath = "fallback"
    /\ cret # << >>
    /\ Range(cret) = ClaimMatching

(***************************************************************************)
(* JSON values as Python holds them after json.loads: every node is a      *)
(* record with a type tag t, a string s, an integer n and children c       *)
(* (key/value pairs of a dict in insertion order, items of a list).        *)
(***************************************************************************)
KV(key, val) == [ k |-> key, v |-> val ]

JNull == [ t |-> "null", s |-> << >>, n |-> 0, c |-> << >> ]

JStr(x) == [ t |-> "str", s |-> x, n |-> 0, c |-> << >> ]

JInt(x) == [ t |-> "int", s |-> << >>, n |-> x, c |-> << >> ]

JList(items) ==
    [ t |-> "list", s |-> << >>, n |-> 0,
      c |-> [ i \in 1..Len(items) |-> KV("", items[i]) ] ]

JDict(pairs) == [ t |-> "dict", s |-> << >>, n |-> 0, c |-> pairs ]

IsDict(v) == v.t = "dict"
IsList(v) == v.t = "list"
IsStr(v) == v.t = "str"
IsInt(v) == v.t = "int"

\* bool(v)
Truthy(v) ==
    CASE v.t = "null" -> FALSE
      [] v.t = "str" -> v.s # << >>
      [] v.t = "int" -> v.n # 0
      [] OTHER -> v.c # << >>

\* key in d
HasKey(d, key) == \E i \in DOMAIN d.c : d.c[i].k = key

\* d.get(key, default)
GetOr(d, key, default) ==
    IF HasKey(d, key) THEN d.c[CHOOSE i \in DOMAIN d.c : d.c[i].k = key].v ELSE default

\* d.get(key)
Get(d, key) == GetOr(d, key, JNull)

\* the items of a list, the values of a dict
Children(v) == [ i \in DOMAIN v.c |-> v.c[i].v ]

RECURSIVE IntToStr(_)
IntToStr(x) ==
    IF x < 10 THEN << DigitChars[x + 1] >>
    ELSE Append(IntToStr(x \div 10), DigitChars[(x % 10) + 1])

\* str(v) for a string, an int or None
PyStr(v) ==
    CASE v.t = "str" -> v.s
      [] v.t = "int" -> IntToStr(v.n)
      [] OTHER -> << "N", "o", "n", "e" >>

(***************************************************************************)
(* modules/alerts.py: _iter_json, TID_RX                                   *)
(***************************************************************************)
RECURSIVE iter_json(_)
RECURSIVE IterChildren(_, _)
\* the dict nodes of obj, depth first, a dict before its values
iter_json(obj) ==
    IF IsDict(obj) THEN << obj >> \o IterChildren(Children(obj), 1)
    ELSE IF IsList(obj) THEN IterChildren(Children(obj), 1)
    ELSE << >>

IterChildren(vals, i) ==
    IF i > Len(vals) THEN << >> ELSE iter_json(vals[i]) \o IterChildren(vals, i + 1)

IsDigit(ch) == \E i \in DOMAIN DigitChars : DigitChars[i] = ch

IsLetter(ch) ==
    \/ \E i \in DOMAIN LowerChars : LowerChars[i] = ch
    \/ \E i \in DOMAIN UpperChars : UpperChars[i] = ch

\* \w
IsWordChar(ch) == IsLetter(ch) \/ IsDigit(ch) \/ ch = "_"

WordAt(text, i) == i >= 1 /\ i <= Len(text) /\ IsWordChar(text[i])

\* \b between positions i - 1 and i
Boundary(text, i) == WordAt(text, i - 1) # WordAt(text, i)

DigitsAt(text, i, count) ==
    \A j \in i..(i + count - 1) : j <= Len(text) /\ IsDigit(text[j])

\* Length of the match of \bT\d{4}(?:\.\d{3})?\b (IGNORECASE) that starts at
\* position i, 0 when there is none; the optional group is tried first.
MatchAt(text, i) ==
    IF ~(/\ Boundary(text, i)
         /\ i <= Len(text)
         /\ text[i] \in { "T", "t" }
         /\ DigitsAt(text, i + 1, 4))
    THEN 0
    ELSE IF /\ i + 5 <= Len(text)
            /\ text[i + 5] = "."
            /\ DigitsAt(text, i + 6, 3)
            /\ Boundary(text, i + 9)
    THEN 9
    ELSE IF Boundary(text, i + 5) THEN 5
    ELSE 0

\* TID_RX.findall(text): left to right, non-overlapping
RECURSIVE FindAllFrom(_, _)
FindAllFrom(text, i) ==
    IF i > Len(text) THEN << >>
    ELSE LET m == MatchAt(text, i)
         IN  IF m > 0 THEN << SubSeq(text, i, i + m - 1) >> \o FindAllFrom(text, i + m)
             ELSE FindAllFrom(text, i + 1)

FindAll(text) == FindAllFrom(text, 1)

(***************************************************************************)
(* modules/alerts.py: _collect_tids_from_any.  A result is the set of      *)
(* identifiers, or raised = TRUE when the code raises (AttributeError of   *)
(* .get on a value that is not a dict).                                    *)
(***************************************************************************)
EmptyDict == JDict(<< >>)

Raised == [ raised |-> TRUE, tids |-> { } ]

Found(S) == [ raised |-> FALSE, tids |-> S ]

\* rule = node.get("rule") or {} ; mitre = rule.get("mitre") or {}
RuleOf(node) == IF Truthy(Get(node, "rule")) THEN Get(node, "rule") ELSE EmptyDict

MitreOf(rule) == IF Truthy(Get(rule, "mitre")) THEN Get(rule, "mitre") ELSE EmptyDict

\* ids = mitre.get("id"): a str, or the str and int items of a list
IdTids(mitre) ==
    LET ids == Get(mitre, "id")
    IN  IF IsStr(ids) THEN { alerts_normalize_tid(ids.s) }
        ELSE IF IsList(ids)
        THEN { alerts_normalize_tid(PyStr(v)) :
                 v \in { x \in Range(Children(ids)) : IsStr(x) \/ IsInt(x) } }
        ELSE { }

\* for key in ("technique", "techniques")
TechniqueTids(mitre) ==
    UNION { LET arr == Get(mitre, key)
            IN  IF IsList(arr)
                THEN { alerts_normalize_tid(PyStr(tid)) :
                         tid \in { x \in { IF IsDict(technique) THEN Get(technique, "id")
                                           ELSE technique :
                                           technique \in Range(Children(arr)) } :
                                     IsStr(x) \/ IsInt(x) } }
                ELSE { } :
            key \in { "technique", "techniques" } }

\* for key in ("message", "description", "full_log")
TextTids(node) ==
    UNION { LET value == Get(node, key)
            IN  IF IsStr(value)
                THEN { alerts_normalize_tid(m) : m \in Range(FindAll(value.s)) }
                ELSE { } :
            key \in { "message", "description", "full_log" } }

\* sub.get("rule", {}).get("mitre", {}).get("id") or sub.get("mitre", {}).get("id")
AliasCandidate(sub) ==
    LET r1 == GetOr(sub, "rule", EmptyDict)
        m1 == GetOr(r1, "mitre", EmptyDict)
        m2 == GetOr(sub, "mitre", EmptyDict)
    IN  IF ~IsDict(r1) THEN [ raised |-> TRUE, val |-> JNull ]
        ELSE IF ~IsDict(m1) THEN [ raised |-> TRUE, val |-> JNull ]
        ELSE IF Truthy(Get(m1, "id")) THEN [ raised |-> FALSE, val |-> Get(m1, "id") ]
        ELSE IF ~IsDict(m2) THEN [ raised |-> TRUE, val |-> JNull ]
        ELSE [ raised |-> FALSE, val |-> Get(m2, "id") ]

\* for key in ("fields", "data"): every item of a list candidate is added
AliasTids(node, key) ==
    LET sub == Get(node, key)
    IN  IF ~IsDict(sub) THEN Found({ })
        ELSE LET cand == AliasCandidate(sub)
             IN  IF cand.raised THEN Raised
                 ELSE IF IsStr(cand.val) THEN Found({ alerts_normalize_tid(cand.val.s) })
                 ELSE IF IsList(cand.val)
                 THEN Found({ alerts_normalize_tid(PyStr(v)) :
                                v \in Range(Children(cand.val)) })
                 ELSE Found({ })

\* the body of the loop over _iter_json(obj), for one dict node
node_tids(node) ==
    LET rule == RuleOf(node)
    IN  IF ~IsDict(rule) THEN Raised
        ELSE LET mitre == MitreOf(rule)
             IN  IF ~IsDict(mitre) THEN Raised
                 ELSE LET f == AliasTids(node, "fields")
                          d == AliasTids(node, "data")
                      IN  IF f.raised \/ d.raised THEN Raised
                          ELSE Found(IdTids(mitre) \cup TechniqueTids(mitre)
                                     \cup TextTids(node) \cup f.tids \cup d.tids)

collect_tids_from_any(obj) ==
    LET rs == { node_tids(node) : node \in Range(iter_json(obj)) }
    IN  IF \E r \in rs : r.raised THEN Raised
        ELSE Found(UNION { r.tids : r \in rs })

(***************************************************************************)
(* modules/alerts.py: extract_tech_ids_universal                           *)
(***************************************************************************)
\* The object handed to the extractor for a batch of the given shape: the
\* record itself, a list, or the wrappers load_wazuh_alerts_any builds.
BatchObject(sh, recs) ==
    CASE sh = "single" -> recs[1]
      [] sh = "list" -> JList(recs)
      [] sh = "ndjson" -> JDict(<< KV("_ndjson", JList(recs)) >>)
      [] sh = "hits" -> JDict(<< KV("_hits_sources", JList(recs)) >>)

\* for x in (value or []): nothing for a falsy value, the items of a list,
\* the characters of a str, the keys of a dict; an int cannot be iterated
IterableItems(v) ==
    IF ~Truthy(v) THEN [ raised |-> FALSE, items |-> << >> ]
    ELSE IF IsList(v) THEN [ raised |-> FALSE, items |-> Children(v) ]
    ELSE IF IsStr(v) THEN [ raised |-> FALSE, items |-> [ i \in DOMAIN v.s |-> JStr(<< v.s[i] >>) ] ]
    ELSE IF IsDict(v) THEN [ raised |-> FALSE, items |-> [ i \in DOMAIN v.c |-> JNull ] ]
    ELSE [ raised |-> TRUE, items |-> << >> ]

\* The items the if/elif chain of extract_tech_ids_universal loops over.
batch_items(obj) ==
    IF IsDict(obj) /\ HasKey(obj, "_hits_sources") THEN IterableItems(Get(obj, "_hits_sources"))
    ELSE IF IsDict(obj) /\ HasKey(obj, "_ndjson") THEN IterableItems(Get(obj, "_ndjson"))
    ELSE IF IsList(obj) THEN [ raised |-> FALSE, items |-> Children(obj) ]
    ELSE IF IsDict(obj) THEN [ raised |-> FALSE, items |-> << obj >> ]
    ELSE [ raised |-> FALSE, items |-> << >> ]

\* Mutant: extend_unique without the membership test.
extend_always(lst, tid) == Append(lst, tid)

\* one iteration of extend_unique: if tid not in tids: tids.append(tid)
extend_unique(lst, tid) == IF tid \in Range(lst) THEN lst ELSE Append(lst, tid)

(***************************************************************************)
(* The alert batches of the model.                                         *)
(***************************************************************************)
\* Raw identifiers of structured fields.
StructIds == { << "t", "2" >>, << "T", "2" >>, << "t", ".", "1" >>, << " ", "a" >> }

IdElems == { JStr(x) : x \in StructIds } \cup { JInt(7), JNull }

IdVals ==
    { JStr(x) : x \in StructIds }
    \cup { JList(<< a >>) : a \in IdElems }
    \cup { JList(<< a, b >>) : a \in IdElems, b \in IdElems }
    \cup { JInt(7), JNull }

TechElems ==
    { JStr(x) : x \in StructIds }
    \cup { JDict(<< KV("id", JStr(x)) >>) : x \in StructIds }
    \cup { JInt(7), JDict(<< KV("id", JInt(7)) >>), JDict(<< >>), JNull }

MitreVals ==
    { JDict(<< KV("id", v) >>) : v \in IdVals }
    \cup { JDict(<< KV(key, JList(<< e >>)) >>) :
             key \in { "technique", "techniques" }, e \in TechElems }
    \cup { JNull, JDict(<< >>), JStr(<< "x" >>) }

RuleVals ==
    { JDict(<< KV("mitre", m) >>) : m \in MitreVals }
    \cup { JNull, JStr(<< "x" >>), JList(<< >>) }

\* Free text: up to MaxTokens tokens glued together.
TextTokens ==
    { << "T", "1", "1", "9", "0" >>, << "t", "1", "0", "5", "9" >>,
      << ".", "0", "0", "1" >>, << " " >>, << "x" >> }

RECURSIVE Flatten(_)
Flatten(q) == IF q = << >> THEN << >> ELSE Head(q) \o Flatten(Tail(q))

Texts == { Flatten(q) : q \in SeqsUpTo(TextTokens, MaxTokens) }

StructuredRecords == { JDict(<< KV("rule", r) >>) : r \in RuleVals }

TextRecords ==
    { JDict(<< KV(key, JStr(x)) >>) :
        key \in { "message", "description", "full_log" }, x \in Texts }
    \cup { JDict(<< KV("message", JInt(7)) >>) }

AliasRecords ==
    { JDict(<< KV(key, JDict(<< KV("rule", JDict(<< KV("mitre", JDict(<< KV("id", v) >>)) >>)) >>)) >>) :
        key \in { "fields", "data" },
        v \in { JStr(<< "t", "2" >>), JList(<< JStr(<< "t", ".", "1" >>), JNull >>), JNull } }
    \cup { JDict(<< KV("data", JDict(<< KV("mitre", m) >>)) >>) :
             m \in { JDict(<< KV("id", JStr(<< " ", "a" >>)) >>), JNull, JDict(<< >>) } }
    \cup { JDict(<< KV("fields", JDict(<< KV("rule", JNull) >>)) >>),
           JDict(<< KV("data", JInt(7)) >>) }

\* The record of section 8: {"rule":{"mitre":{"id":["T1190","T1059.001"]}}}
ExampleRecord ==
    JDict(<< KV("rule", JDict(<< KV("mitre", JDict(<< KV("id",
        JList(<< JStr(<< "T", "1", "1", "9", "0" >>),
                 JStr(<< "T", "1", "0", "5", "9", ".", "0", "0", "1" >>) >>)) >>)) >>)) >>)

\* A record with structured identifiers and free text.
MixedRecord ==
    JDict(<< KV("rule", JDict(<< KV("mitre", JDict(<< KV("id", JStr(<< "t", "2" >>)) >>)) >>)),
             KV("message", JStr(<< "x", " ", "t", "1", "1", "9", "0" >>)) >>)

\* Records passed on as members of a list, a record stream or a hit list,
\* and nested below other mappings and sequences.
MemberRecords ==
    { ExampleRecord, MixedRecord,
      JDict(<< KV("rule", JDict(<< KV("mitre", JDict(<< KV("id", JStr(<< "T", "2" >>)) >>)) >>)) >>),
      JDict(<< KV("rule", JDict(<< KV("mitre", JDict(<< KV("techniques",
          JList(<< JDict(<< KV("id", JStr(<< " ", "a" >>)) >>) >>)) >>)) >>)) >>),
      JDict(<< KV("full_log", JStr(<< "T", "1", "1", "9", "0", ".", "0", "0", "1" >>)) >>),
      JDict(<< KV("rule", JStr(<< "x" >>)) >>),
      JDict(<< >>) }

NestedRecords ==
    { JDict(<< KV("k", r) >>) : r \in MemberRecords }
    \cup { JDict(<< KV("k", JList(<< r >>)) >>) : r \in MemberRecords }
    \cup { JDict(<< KV("k", JList(<< JList(<< JStr(<< "x" >>), r >>) >>)) >>) : r \in MemberRecords }
    \cup { JDict(<< KV("rule", r.c[1].v), KV("k", JDict(<< KV("k", q) >>)) >>) :
             r \in { x \in MemberRecords : x.c # << >> /\ x.c[1].k = "rule" },
             q \in MemberRecords }

\* Alert records that themselves hold a key named like a batch wrapper.
ReservedKeyRecords ==
    { JDict(<< KV(key, v) >> \o r.c) :
        key \in { "_ndjson", "_hits_sources" },
        v \in { JList(<< >>), JNull, JInt(7), JStr(<< "x" >>) },
        r \in { ExampleRecord, MixedRecord } }

Records ==
    StructuredRecords \cup TextRecords \cup AliasRecords \cup MemberRecords
    \cup NestedRecords \cup ReservedKeyRecords

\* Items of a list-like batch: records, and values that are no mapping.
BatchMembers == MemberRecords \cup { JStr(<< "x" >>), JNull }

InitExtract ==
    /\ \/ /\ shape = "single"
          /\ records \in { << r >> : r \in Records }
       \/ /\ shape \in { "list", "ndjson", "hits" }
          /\ records \in SeqsUpTo(BatchMembers, MaxItems)
    /\ epc = "start"
    /\ ri = 0
    /\ pending = { }
    /\ tids = << >>
    /\ out = << >>
    /\ NormIdle
    /\ CorrIdle
    /\ AuxIdle

Items == batch_items(BatchObject(shape, records))

\* extract_tech_ids_universal is entered: the if/elif chain picks the loop.
ExtractCall ==
    /\ epc = "start"
    /\ epc' = IF Items.raised THEN "raised" ELSE "loop"
    /\ UNCHANGED << shape, records, ri, pending, tids, out, normVars, corrVars, auxVars >>

\* The loop takes the next item; a dict item is handed to
\* _collect_tids_from_any, whose exception leaves the function.
ExtractVisit ==
    /\ epc = "loop"
    /\ pending = { }
    /\ ri < Len(Items.items)
    /\ LET item == Items.items[ri + 1]
           r == IF IsDict(item) THEN collect_tids_from_any(item) ELSE Found({ })
       IN  /\ epc' = IF r.raised THEN "raised" ELSE "loop"
           /\ pending' = r.tids
    /\ ri' = ri + 1
    /\ UNCHANGED << shape, records, tids, out, normVars, corrVars, auxVars >>

\* extend_unique iterates new_items, a set, in an order Python chooses.
ExtendUnique ==
    /\ epc = "loop"
    /\ pending # { }
    /\ \E tid \in pending :
          /\ tids' = extend_unique(tids, tid)
          /\ pending' = pending \ { tid }
    /\ UNCHANGED << shape, records, epc, ri, out, normVars, corrVars, auxVars >>

\* return sorted(tids)
ExtractReturn ==
    /\ epc = "loop"
    /\ pending = { }
    /\ ri = Len(Items.items)
    /\ out' = Sorted(tids)
    /\ epc' = "done"
    /\ UNCHANGED << shape, records, ri, pending, tids, normVars, corrVars, auxVars >>

NextExtract == ExtractCall \/ ExtractVisit \/ ExtendUnique \/ ExtractReturn

SpecExtract == InitExtract /\ [][NextExtract]_vars

(***************************************************************************)
(* Claims about extract_tech_ids_universal (SpecExtract).                  *)
(***************************************************************************)
\* a comes strictly before b in lexicographic code-point order
ClaimLexLess(a, b) ==
    \E k \in 1..(Len(b)) :
        /\ \A j \in 1..(k - 1) : j <= Len(a) /\ a[j] = b[j]
        /\ \/ k > Len(a)
           \/ /\ k <= Len(a)
              /\ \E x, y \in DOMAIN CharOrder :
                    CharOrder[x] = a[k] /\ CharOrder[y] = b[k] /\ x < y

\* C8: for every batch (single object, list, record stream, sourced hits)
\* the returned sequence is in ascending lexicographic order and holds no
\* identifier twice.
C8_SortedNoDuplicates ==
    epc = "done" => \A j, k \in DOMAIN out : j < k => ClaimLexLess(out[j], out[k])

\* C8 witness: a batch of two records that share an identifier has been
\* extracted, the list was filled out of order, and three identifiers are
\* returned.
C8_Witness ==
    /\ epc = "done"
    /\ shape \in { "list", "ndjson", "hits" }
    /\ Len(records) = 2
    /\ \E x \in Range(tids) :
          /\ x \in collect_tids_from_any(records[1]).tids
          /\ x \in collect_tids_from_any(records[2]).tids
    /\ Len(out) = 3
    /\ out # tids

\* The alert records of the batch: its mappings.
ClaimAlertRecords == { r \in Range(records) : r.t = "dict" }

RECURSIVE ClaimMappings(_)
\* every mapping node reachable from v through mappings and sequences
ClaimMappings(v) ==
    (IF v.t = "dict" THEN { v } ELSE { })
    \cup UNION { ClaimMappings(v.c[i].v) : i \in DOMAIN v.c }

ClaimField(v, key) ==
    IF v.t = "dict" /\ \E i \in DOMAIN v.c : v.c[i].k = key
    THEN { v.c[i].v : i \in { j \in DOMAIN v.c : v.c[j].k = key } }
    ELSE { }

ClaimItems(v) == IF v.t = "list" THEN { v.c[i].v : i \in DOMAIN v.c } ELSE { }

ClaimScalarText(v) == IF v.t = "str" THEN { v.s } ELSE IF v.t = "int" THEN { IntToStr(v.n) } ELSE { }

\* the string and integer identifiers under node.rule.mitre: id (a string,
\* or the items of an array), technique[] and techniques[] (raw identifiers
\* or the id field of objects)
ClaimStructuredIds(node) ==
    LET mitres == UNION { ClaimField(r, "mitre") : r \in ClaimField(node, "rule") }
        ids == UNION { ClaimField(m, "id") : m \in mitres }
        arrs == UNION { ClaimField(m, "technique") \cup ClaimField(m, "techniques") : m \in mitres }
        entries == UNION { ClaimItems(a) : a \in arrs }
    IN  UNION { IF v.t = "str" THEN { v.s } ELSE UNION { ClaimScalarText(x) : x \in ClaimItems(v) } :
                v \in ids }
        \cup UNION { ClaimScalarText(e) \cup UNION { ClaimScalarText(x) : x \in ClaimField(e, "id") } :
                     e \in entries }

\* normalized form of an identifier found in an alert: trimmed, upper-case,
\* '.' replaced by '_'
ClaimIdForm(x) ==
    LET f == ClaimTrim(x)
    IN  [ i \in 1..Len(f) |-> IF f[i] = "." THEN "_" ELSE UpperChar(f[i]) ]

\* C9 (as claimed): every string or integer identifier under rule.mitre.id,
\* rule.mitre.technique[] or rule.mitre.techniques[] of any mapping reachable
\* from an alert record is in the returned list in normalized form, and the
\* record of section 8 gives exactly ["T1059_001", "T1190"].
C9_StructuredIdsExtracted ==
    epc = "done" =>
        /\ \A r \in ClaimAlertRecords : \A node \in ClaimMappings(r) :
              \A x \in ClaimStructuredIds(node) : ClaimIdForm(x) \in Range(out)
        /\ (shape = "single" /\ records = << ExampleRecord >>) =>
              out = << << "T", "1", "0", "5", "9", "_", "0", "0", "1" >>,
                       << "T", "1", "1", "9", "0" >> >>

ClaimWordChar(ch) ==
    ch \in Range(LowerChars) \cup Range(UpperChars) \cup Range(DigitChars) \cup { "_" }

\* text[i..j] is a whole word run: no word character right before or after
ClaimWholeWord(text, i, j) ==
    /\ (i = 1 \/ ~ClaimWordChar(text[i - 1]))
    /\ (j = Len(text) \/ ~ClaimWordChar(text[j + 1]))

ClaimBaseForm(text, i) ==
    /\ i + 4 <= Len(text)
    /\ text[i] \in { "T", "t" }
    /\ \A j \in (i + 1)..(i + 4) : text[j] \in Range(DigitChars)

ClaimSubForm(text, i) ==
    /\ ClaimBaseForm(text, i)
    /\ i + 8 <= Len(text)
    /\ text[i + 5] = "."
    /\ \A j \in (i + 6)..(i + 8) : text[j] \in Range(DigitChars)

\* the whole-word occurrences of T + 4 digits + optional ('.' + 3 digits),
\* each taken with its sub-technique when that is a whole word too
ClaimOccurrences(text) ==
    { SubSeq(text, i, i + 8) :
        i \in { k \in 1..Len(text) : ClaimSubForm(text, k) /\ ClaimWholeWord(text, k, k + 8) } }
    \cup { SubSeq(text, i, i + 4) :
             i \in { k \in 1..Len(text) :
                       /\ ClaimBaseForm(text, k)
                       /\ ClaimWholeWord(text, k, k + 4)
                       /\ ~(ClaimSubForm(text, k) /\ ClaimWholeWord(text, k, k + 8)) } }

ClaimTextFields(node) ==
    { v.s : v \in { x \in ClaimField(node, "message") \cup ClaimField(node, "description")
                            \cup ClaimField(node, "full_log") : x.t = "str" } }

\* C10 (as claimed): every whole-word occurrence of a technique identifier in
\* a string message, description or full_log of any mapping reachable from
\* an alert record is in the returned list in normalized form.
C10_FreeTextIdsExtracted ==
    epc = "done" =>
        \A r \in ClaimAlertRecords : \A node \in ClaimMappings(r) :
            \A text \in ClaimTextFields(node) :
                \A m \in ClaimOccurrences(text) : ClaimIdForm(m) \in Range(out)

\* the string and integer identifiers under the alias paths of a node:
\* fields.rule.mitre.id and data.mitre.id (a string, or the items of an
\* array), read through either nesting of both keys
ClaimAliasIds(node) ==
    LET subs == ClaimField(node, "fields") \cup ClaimField(node, "data")
        mitres == UNION { ClaimField(s, "mitre")
                          \cup UNION { ClaimField(r, "mitre") : r \in ClaimField(s, "rule") } :
                          s \in subs }
        ids == UNION { ClaimField(m, "id") : m \in mitres }
    IN  UNION { IF v.t = "str" THEN { v.s } ELSE UNION { ClaimScalarText(x) : x \in ClaimItems(v) } :
                v \in ids }

\* Every identifier a string or an integer of an identifier-bearing field,
\* or a free-text occurrence, contributes, in normalized form.
ClaimContributed ==
    UNION { UNION { { ClaimIdForm(x) :
                        x \in ClaimStructuredIds(node) \cup ClaimAliasIds(node)
                              \cup UNION { ClaimOccurrences(text) : text \in ClaimTextFields(node) } } :
                    node \in ClaimMappings(r) } :
            r \in ClaimAlertRecords }

\* C24: a value of an identifier-bearing field that is neither a string nor
\* an integer contributes no identifier: the returned list holds only what
\* the strings, integers and free-text occurrences contribute.
C24_NonTextualValuesSkipped ==
    epc = "done" => Range(out) \subseteq ClaimContributed

\* The canonical shape: T, four digits, and optionally '_' and three digits.
ClaimCanonical(x) ==
    /\ Len(x) \in { 5, 9 }
    /\ x[1] = "T"
    /\ \A i \in 2..5 : x[i] \in Range(DigitChars)
    /\ Len(x) = 9 => x[6] = "_" /\ \A i \in 7..9 : x[i] \in Range(DigitChars)

\* C27: every identifier of the returned list has the canonical shape,
\* whatever strings or integers the structured fields hold.
C27_OutputIsCanonical ==
    epc = "done" => \A k \in DOMAIN out : ClaimCanonical(out[k])

\* The batch re-reads as a wrapper: a single record holding a key named
\* _ndjson or _hits_sources.
SingleWithReservedKey ==
    /\ shape = "single"
    /\ \E i \in DOMAIN records[1].c : records[1].c[i].k \in { "_ndjson", "_hits_sources" }

\* C16: extract_tech_ids_universal is total over structurally arbitrary
\* alert trees: whatever the rule, rule.mitre, fields.rule, data.mitre or
\* batch values are, the call returns and never raises.
C16_ExtractionTotal == epc # "raised"

(***************************************************************************)
(* modules/rag.py: tokens, bag-of-words vectors, cosine, snippet           *)
(*                                                                         *)
(* A score is the float  dot / (norm_a * norm_b).  The model holds it      *)
(* exactly, as the pair of the dot product and of the squared product of   *)
(* the norms: [dot |-> d, den |-> n] stands for d / sqrt(n).  A norm is    *)
(* held as its square.                                                     *)
(***************************************************************************)
\* The character U+2026 that _snippet appends.
Ellipsis == "..."

\* def _snippet(text, limit=260)
SnippetLimit == 260

\* def search(self, query, top_k=3)
DefaultTopK == 3

\* q[:k] of Python, for any integer k
PySlice(q, k) ==
    IF k >= 0 THEN SubSeq(q, 1, IF k < Len(q) THEN k ELSE Len(q))
    ELSE SubSeq(q, 1, IF Len(q) + k > 0 THEN Len(q) + k ELSE 0)

\* TOKEN_RX = [\w-]+ : the maximal runs of word characters and '-'
RECURSIVE FindTokens(_)
FindTokens(text) ==
    IF text = << >> THEN << >>
    ELSE IF ~(IsWordChar(Head(text)) \/ Head(text) = "-") THEN FindTokens(Tail(text))
    ELSE LET n == CHOOSE k \in 1..Len(text) :
                      /\ \A j \in 1..k : IsWordChar(text[j]) \/ text[j] = "-"
                      /\ k = Len(text) \/ ~(IsWordChar(text[k + 1]) \/ text[k + 1] = "-")
         IN  << SubSeq(text, 1, n) >> \o FindTokens(SubSeq(text, n + 1, Len(text)))

tokenize(text) ==
    LET found == FindTokens(text)
    IN  [ i \in 1..Len(found) |-> Lower(found[i]) ]

\* collections.Counter(tokens): token -> number of occurrences
Counter(tokens) ==
    [ tok \in Range(tokens) |-> Cardinality({ i \in DOMAIN tokens : tokens[i] = tok }) ]

\* sum(f(k) for k in keys)
RECURSIVE SumOver(_, _)
SumOver(f, keys) ==
    IF keys = { } THEN 0
    ELSE LET k == CHOOSE x \in keys : TRUE
         IN  f[k] + SumOver(f, keys \ { k })

\* Mutant: the norm adds the counts instead of their squares.
norm_unsquared(counter) ==
    LET s == SumOver(counter, DOMAIN counter)
    IN  IF s = 0 THEN 1 ELSE s * s

\* _norm, squared: sum(v * v) or 1.0
norm(counter) ==
    LET s == SumOver([ k \in DOMAIN counter |-> counter[k] * counter[k] ], DOMAIN counter)
    IN  IF s = 0 THEN 1 ELSE s

ZeroScore == [ dot |-> 0, den |-> 1 ]

cosine(vec_a, norm_a, vec_b, norm_b) ==
    IF DOMAIN vec_a = { } \/ DOMAIN vec_b = { } THEN ZeroScore
    ELSE LET shared == DOMAIN vec_a \cap DOMAIN vec_b
             score == SumOver([ k \in shared |-> vec_a[k] * vec_b[k] ], shared)
         IN  IF score # 0 THEN [ dot |-> score, den |-> norm_a * norm_b ] ELSE ZeroScore

\* Comparisons of two scores, by cross-multiplication of their squares.
ScoreLess(x, y) == x.dot * x.dot * y.den < y.dot * y.dot * x.den

ScorePositive(x) == x.dot > 0

snippet(text, limit) ==
    IF Len(text) <= limit THEN text
    ELSE RSplit1(PySlice(text, limit), " ")[1] \o << Ellipsis >>

RagResult(doc, sim) ==
    [ title |-> doc.title, content |-> doc.content,
      snippet |-> snippet(doc.content, SnippetLimit), score |-> sim ]

\* SimpleRAG.__init__: one stored document per input document; << >> stands
\* for a title or content that is absent, None or empty.
SectionTitle == << "S", "e", "c", "t", "i", "o", "n" >>

build_docs(documents) ==
    [ i \in 1..Len(documents) |->
        [ title |-> Strip(IF documents[i].title # << >> THEN documents[i].title
                          ELSE SectionTitle),
          content |-> Strip(documents[i].content) ] ]

build_vectors(documents) ==
    [ i \in 1..Len(documents) |-> Counter(tokenize(build_docs(documents)[i].content)) ]

build_norms(documents) ==
    [ i \in 1..Len(documents) |-> norm(build_vectors(documents)[i]) ]

\* Mutant: an element is placed before the ones of the same score.
RECURSIVE InsertBeforeTies(_, _)
InsertBeforeTies(r, q) ==
    IF q = << >> THEN << r >>
    ELSE IF ~ScoreLess(r.score, Head(q).score) THEN << r >> \o q
    ELSE << Head(q) >> \o InsertBeforeTies(r, Tail(q))

\* scored.sort(key=lambda r: r.score, reverse=True): stable, an element is
\* placed before the first one of a strictly smaller score.
RECURSIVE InsertByScore(_, _)
InsertByScore(r, q) ==
    IF q = << >> THEN << r >>
    ELSE IF ScoreLess(Head(q).score, r.score) THEN << r >> \o q
    ELSE << Head(q) >> \o InsertByScore(r, Tail(q))

RECURSIVE SortByScore(_)
SortByScore(q) ==
    IF q = << >> THEN << >>
    ELSE InsertByScore(q[Len(q)], SortByScore(SubSeq(q, 1, Len(q) - 1)))

\* The loop of search: the documents of strictly positive similarity,
\* in index order.
RECURSIVE Scored(_, _, _, _, _)
Scored(ds, vs, ns, q_vec, n) ==
    IF n = 0 THEN << >>
    ELSE LET sim == cosine(q_vec, norm(q_vec), vs[n], ns[n])
             before == Scored(ds, vs, ns, q_vec, n - 1)
         IN  IF ScorePositive(sim) THEN Append(before, RagResult(ds[n], sim))
             ELSE before

\* Mutant: top_k is used as given, zero included.
search_plain_cut(ds, vs, ns, query, top_k) ==
    IF ds = << >> THEN << >>
    ELSE LET hits == Scored(ds, vs, ns, Counter(tokenize(query)), Len(ds))
             scored == IF hits = << >> THEN << RagResult(ds[1], ZeroScore) >> ELSE hits
         IN  PySlice(SortByScore(scored), top_k)

search(ds, vs, ns, query, top_k) ==
    IF ds = << >> THEN << >>
    ELSE LET hits == Scored(ds, vs, ns, Counter(tokenize(query)), Len(ds))
             scored == IF hits = << >> THEN << RagResult(ds[1], ZeroScore) >> ELSE hits
         IN  PySlice(SortByScore(scored), IF top_k = 0 THEN 1 ELSE top_k)

(***************************************************************************)
(* SpecRag: an index built over a corpus, then any sequence of searches.   *)
(***************************************************************************)
\* Input documents: contents " a b", "a", "A a", "."; one has a title, one
\* has no token, two have the same bag of words up to a factor.
RagDocuments ==
    { [ title |-> << >>, content |-> << " ", "a", " ", "b" >> ],
      [ title |-> << " ", "t" >>, content |-> << "a" >> ],
      [ title |-> << >>, content |-> << "A", " ", "a" >> ],
      [ title |-> << >>, content |-> << "." >> ] }

Corpora == SeqsUpTo(RagDocuments, MaxDocs)

RagQueries == { d.content : d \in RagDocuments } \cup { << >>, << "c" >> }

TopKs == (-1)..MaxTopK

InitRag ==
    /\ \E documents \in Corpora :
          /\ docs = build_docs(documents)
          /\ vectors = build_vectors(documents)
          /\ norms = build_norms(documents)
    /\ rq = << >>
    /\ rk = << >>
    /\ rres = << >>
    /\ rpc = "built"
    /\ CoreIdle
    /\ ExtIdle
    /\ SnippetIdle
    /\ LoadIdle
    /\ PromptIdle

\* Mutant: a search keeps the vector of its query in the place of the first
\* vector of the index.
SearchKeepingQuery ==
    /\ rpc \in { "built", "searched" }
    /\ \E query \in RagQueries, top_k \in TopKs :
          /\ rq' = query
          /\ rk' = << top_k >>
          /\ rres' = search(docs, vectors, norms, query, top_k)
          /\ vectors' = [ i \in DOMAIN vectors |->
                            IF i = 1 THEN Counter(tokenize(query)) ELSE vectors[i] ]
    /\ rpc' = "searched"
    /\ UNCHANGED << docs, norms, coreVars, extVars, snippetVars, loadVars, promptVars >>

\* search(query, top_k)
Search ==
    /\ rpc \in { "built", "searched" }
    /\ \E query \in RagQueries, top_k \in TopKs :
          /\ rq' = query
          /\ rk' = << top_k >>
          /\ rres' = search(docs, vectors, norms, query, top_k)
    /\ rpc' = "searched"
    /\ UNCHANGED << docs, vectors, norms, coreVars, extVars, snippetVars, loadVars, promptVars >>

\* search(query): top_k takes its default
SearchDefault ==
    /\ rpc \in { "built", "searched" }
    /\ \E query \in RagQueries :
          /\ rq' = query
          /\ rk' = << >>
          /\ rres' = search(docs, vectors, norms, query, DefaultTopK)
    /\ rpc' = "searched"
    /\ UNCHANGED << docs, vectors, norms, coreVars, extVars, snippetVars, loadVars, promptVars >>

NextRag == Search \/ SearchDefault

SpecRag == InitRag /\ [][NextRag]_vars

(***************************************************************************)
(* SpecSnippet: _snippet applied to a text and a limit.                    *)
(***************************************************************************)
SnippetTexts == StringsUpTo({ "a", " " }, MaxSnipLen)

InitSnippet ==
    /\ stext \in SnippetTexts
    /\ slimit \in 0..MaxLimit
    /\ ssnip = << >>
    /\ CoreIdle
    /\ ExtIdle
    /\ RagIdle
    /\ LoadIdle
    /\ PromptIdle

SnippetCall ==
    /\ ssnip = << >>
    /\ ssnip' = << snippet(stext, slimit) >>
    /\ UNCHANGED << stext, slimit, coreVars, extVars, ragVars, loadVars, promptVars >>

NextSnippet == SnippetCall

SpecSnippet == InitSnippet /\ [][NextSnippet]_vars

(***************************************************************************)
(* Claims about SimpleRAG.search (SpecRag) and _snippet (SpecSnippet).     *)
(***************************************************************************)
\* Document i has strictly positive similarity to the query: the two
\* bags of words share a token.
ClaimSimilar(i) ==
    Range(tokenize(rq)) \cap Range(tokenize(docs[i].content)) # { }

\* C11: for a non-empty corpus, every query and every top_k, search
\* returns at least one result; when no document has strictly positive
\* similarity the result is exactly the first document with score 0.0.
C11_AtLeastOneResult ==
    (rpc = "searched" /\ docs # << >>) =>
        /\ Len(rres) >= 1
        /\ (\A i \in DOMAIN docs : ~ClaimSimilar(i)) =>
              /\ Len(rres) = 1
              /\ rres[1].title = docs[1].title
              /\ rres[1].content = docs[1].content
              /\ rres[1].score = ZeroScore

\* The length bound of the claim for a top_k that was given.
ClaimLengthBound(k) ==
    IF k = 0 THEN (docs # << >> => Len(rres) = 1) ELSE Len(rres) <= k

\* C12 (as stated): for every integer top_k the result has at most top_k
\* entries, exactly one for top_k = 0 and a non-empty corpus, and at most 3
\* when top_k is omitted.
C12_LengthAtMostTopK ==
    rpc = "searched" =>
        IF rk = << >> THEN Len(rres) <= 3 ELSE ClaimLengthBound(rk[1])

\* C12 (amended): the same for every top_k that is not negative.
C12_LengthAtMostTopKNonNegative ==
    rpc = "searched" =>
        IF rk = << >> THEN Len(rres) <= 3
        ELSE rk[1] >= 0 => ClaimLengthBound(rk[1])

\* Three documents are similar to the query and top_k = 2 cut the list.
C12_Witness ==
    /\ rpc = "searched"
    /\ rk = << 2 >>
    /\ Cardinality({ i \in DOMAIN docs : ClaimSimilar(i) }) >= 3
    /\ Len(rres) = 2

\* C13: the snippet has at most limit + 1 characters, is the text itself
\* when the text has at most limit characters, and otherwise is a prefix of
\* the text that ends at a word boundary, followed by the ellipsis.
C13_SnippetAtWordBoundary ==
    ssnip # << >> =>
        LET s == ssnip[1]
        IN  /\ Len(s) <= slimit + 1
            /\ Len(stext) <= slimit => s = stext
            /\ Len(stext) > slimit =>
                  \E n \in 0..slimit :
                      /\ s = SubSeq(stext, 1, n) \o << Ellipsis >>
                      /\ \/ n = 0
                         \/ stext[n] = " "
                         \/ stext[n + 1] = " "

\* The search is the one of the claim: one document, queried with its own
\* content, top_k = 1.
ClaimSelfSearch ==
    /\ rpc = "searched"
    /\ Len(docs) = 1
    /\ Strip(rq) = docs[1].content
    /\ rk = << 1 >>

\* The first result is the document, with cosine 1: the dot product equals
\* the product of the norms.
ClaimSelfFirst ==
    /\ Len(rres) >= 1
    /\ rres[1].title = docs[1].title
    /\ rres[1].content = docs[1].content
    /\ rres[1].score.dot * rres[1].score.dot = rres[1].score.den

\* C14 (as stated): for every single-document corpus, the search for the
\* document's own content with top_k = 1 returns it first with cosine 1.
C14_SelfSimilarityIsOne == ClaimSelfSearch => ClaimSelfFirst

\* C14 (amended): the same for every document whose content holds a token.
C14_SelfSimilarityIsOneWithToken ==
    (ClaimSelfSearch /\ FindTokens(docs[1].content) # << >>) => ClaimSelfFirst

\* The document " a b", of two tokens, was searched with its own content.
C14_Witness ==
    /\ ClaimSelfSearch
    /\ Len(FindTokens(docs[1].content)) = 2
    /\ rres[1].score.dot = 2

\* The document of result k: among the documents of rres[k]'s title and
\* content, the one after those of the earlier identical results; 0 when
\* the corpus has none left.
ClaimDocOf(k) ==
    LET earlier == { j \in 1..(k - 1) : rres[j] = rres[k] }
        cands == { i \in DOMAIN docs : /\ docs[i].title = rres[k].title
                                       /\ docs[i].content = rres[k].content }
    IN  IF Cardinality(cands) > Cardinality(earlier)
        THEN CHOOSE i \in cands :
                 Cardinality({ j \in cands : j < i }) = Cardinality(earlier)
        ELSE 0

ClaimSquaredLength(vec) ==
    Cardinality(UNION { { << k, i, j >> : i \in 1..vec[k], j \in 1..vec[k] } : k \in DOMAIN vec })

\* C29: a search leaves the documents, vectors and norms of the index as
\* they are, a search repeated with the same query and topK returns the
\* same results, and every stored norm is the Euclidean norm of its vector,
\* or 1.0 for an all-zero vector (the norms are held as their squares).
C29_IndexImmutable ==
    /\ [][ /\ docs' = docs
           /\ vectors' = vectors
           /\ norms' = norms
           /\ (rpc = "searched" /\ rq' = rq /\ rk' = rk) => rres' = rres ]_vars
    /\ [](rpc # "idle" =>
            /\ Len(vectors) = Len(docs)
            /\ Len(norms) = Len(docs)
            /\ \A i \in DOMAIN norms :
                  norms[i] = IF ClaimSquaredLength(vectors[i]) = 0 THEN 1
                             ELSE ClaimSquaredLength(vectors[i]))

\* An index with an all-zero vector and with a vector of norm 2 has been
\* searched and has returned a result.
C29_Witness ==
    /\ rpc = "searched"
    /\ rres # << >>
    /\ \E i \in DOMAIN vectors : DOMAIN vectors[i] = { } /\ norms[i] = 1
    /\ \E i \in DOMAIN vectors : \E k \in DOMAIN vectors[i] : vectors[i][k] = 2 /\ norms[i] = 4

(***************************************************************************)
(* json.loads, as far as load_wazuh_alerts_any depends on it.              *)
(*                                                                         *)
(* A payload text is a sequence of lexemes: the punctuation of JSON, the   *)
(* quote, the blank, the line feed and the digits are one character each;  *)
(* a name such as hits or _source is one lexeme standing for its letters.  *)
(* The texts of the model hold no escape, float, true or false.            *)
(***************************************************************************)
ParseFail == [ ok |-> FALSE, val |-> JNull, rest |-> << >> ]

Parsed(v, r) == [ ok |-> TRUE, val |-> v, rest |-> r ]

\* The name a parsed string stands for, as a dict key.
RECURSIVE JoinKey(_)
JoinKey(s) == IF s = << >> THEN "" ELSE Head(s) \o JoinKey(Tail(s))

\* d[key] = val on the pairs of a dict: a repeated key keeps its place
SetKey(pairs, key, val) ==
    IF \E i \in DOMAIN pairs : pairs[i].k = key
    THEN [ i \in DOMAIN pairs |-> IF pairs[i].k = key THEN KV(key, val) ELSE pairs[i] ]
    ELSE Append(pairs, KV(key, val))

\* A string: from the quote at the head of q to the next quote; a line
\* feed inside it is an error.
ParseString(q) ==
    IF \E k \in 2..Len(q) : q[k] = "\""
    THEN LET k == CHOOSE i \in 2..Len(q) : q[i] = "\"" /\ \A j \in 2..(i - 1) : q[j] # "\""
         IN  IF \E j \in 2..(k - 1) : q[j] = "\n" THEN ParseFail
             ELSE Parsed(JStr(SubSeq(q, 2, k - 1)), SubSeq(q, k + 1, Len(q)))
    ELSE ParseFail

\* An integer: 0, or a run of digits that does not start with 0.
RECURSIVE ParseDigits(_, _)
ParseDigits(q, acc) ==
    IF q # << >> /\ IsDigit(Head(q))
    THEN ParseDigits(Tail(q), 10 * acc + (Ord(Head(q)) - Ord("0")))
    ELSE Parsed(JInt(acc), q)

RECURSIVE ParseValue(_)
RECURSIVE ParseMembers(_, _, _)
RECURSIVE ParseElements(_, _, _)

\* A value at the head of q, which starts with no white space.
ParseValue(q) ==
    IF q = << >> THEN ParseFail
    ELSE CASE Head(q) = "{" -> ParseMembers(LStrip(Tail(q)), << >>, TRUE)
           [] Head(q) = "[" -> ParseElements(LStrip(Tail(q)), << >>, TRUE)
           [] Head(q) = "\"" -> ParseString(q)
           [] Head(q) = "0" -> Parsed(JInt(0), Tail(q))
           [] IsDigit(Head(q)) /\ Head(q) # "0" -> ParseDigits(q, 0)
           [] Head(q) = "null" -> Parsed(JNull, Tail(q))
           [] OTHER -> ParseFail

\* The members of an object after '{' or ',': "key" : value, then ',' or '}'.
ParseMembers(q, acc, first) ==
    IF q = << >> THEN ParseFail
    ELSE IF first /\ Head(q) = "}" THEN Parsed(JDict(acc), Tail(q))
    ELSE IF Head(q) # "\"" THEN ParseFail
    ELSE LET key == ParseString(q)
             colon == LStrip(key.rest)
             val == ParseValue(LStrip(Tail(colon)))
             acc1 == SetKey(acc, JoinKey(key.val.s), val.val)
             next == LStrip(val.rest)
         IN  IF ~key.ok \/ colon = << >> THEN ParseFail
             ELSE IF Head(colon) # ":" \/ ~val.ok \/ next = << >> THEN ParseFail
             ELSE IF Head(next) = "}" THEN Parsed(JDict(acc1), Tail(next))
             ELSE IF Head(next) = "," THEN ParseMembers(LStrip(Tail(next)), acc1, FALSE)
             ELSE ParseFail

\* The elements of an array after '[' or ',': value, then ',' or ']'.
ParseElements(q, acc, first) ==
    IF q = << >> THEN ParseFail
    ELSE IF first /\ Head(q) = "]" THEN Parsed(JList(acc), Tail(q))
    ELSE LET val == ParseValue(q)
             acc1 == Append(acc, val.val)
             next == LStrip(val.rest)
         IN  IF ~val.ok \/ next = << >> THEN ParseFail
             ELSE IF Head(next) = "]" THEN Parsed(JList(acc1), Tail(next))
             ELSE IF Head(next) = "," THEN ParseElements(LStrip(Tail(next)), acc1, FALSE)
             ELSE ParseFail

\* json.loads(txt): one value and nothing but white space around it;
\* ok = FALSE stands for json.JSONDecodeError.
json_loads(txt) ==
    LET p == ParseValue(LStrip(txt))
    IN  IF p.ok /\ LStrip(p.rest) = << >> THEN p ELSE ParseFail

(***************************************************************************)
(* modules/alerts.py: load_wazuh_alerts_any                                *)
(***************************************************************************)
Loaded(v) == [ raised |-> FALSE, val |-> v ]

LoadRaised == [ raised |-> TRUE, val |-> JNull ]

\* [line for line in txt.splitlines() if line.strip()]
RECURSIVE NonBlank(_)
NonBlank(lines) ==
    IF lines = << >> THEN << >>
    ELSE IF Strip(Head(lines)) # << >> THEN << Head(lines) >> \o NonBlank(Tail(lines))
    ELSE NonBlank(Tail(lines))

\* Mutant: the loop ends at the first line that does not parse.
RECURSIVE ndjson_items_until_error(_)
ndjson_items_until_error(lines) ==
    IF lines = << >> THEN << >>
    ELSE LET p == json_loads(Head(lines))
         IN  IF p.ok THEN << p.val >> \o ndjson_items_until_error(Tail(lines))
             ELSE << >>

\* the loop over the lines: a line that does not parse is skipped
RECURSIVE ndjson_items(_)
ndjson_items(lines) ==
    IF lines = << >> THEN << >>
    ELSE LET p == json_loads(Head(lines))
         IN  (IF p.ok THEN << p.val >> ELSE << >>) \o ndjson_items(Tail(lines))

\* [hit.get("_source") for hit in hits if isinstance(hit, dict) and hit.get("_source")]
RECURSIVE hit_sources(_)
hit_sources(hits) ==
    IF hits = << >> THEN << >>
    ELSE LET hit == Head(hits)
         IN  (IF IsDict(hit) /\ Truthy(Get(hit, "_source")) THEN << Get(hit, "_source") >>
              ELSE << >>) \o hit_sources(Tail(hits))

\* load_wazuh_alerts_any on a str, from line 44 on
load_text(text) ==
    LET txt == Strip(text)
        lines == NonBlank(Split(txt, "\n"))
        data == json_loads(txt)
        hits == GetOr(Get(data.val, "hits"), "hits", JList(<< >>))
        \* for hit in hits: None and an int cannot be iterated
        iter == IF hits.t \in { "null", "int" } THEN [ raised |-> TRUE, items |-> << >> ]
                ELSE IterableItems(hits)
    IN  IF txt = << >> THEN Loaded(EmptyDict)
        ELSE IF Len(lines) > 1 /\ \A i \in DOMAIN lines : Head(Strip(lines[i])) = "{"
        THEN Loaded(JDict(<< KV("_ndjson", JList(ndjson_items(lines))) >>))
        ELSE IF ~data.ok THEN LoadRaised
        ELSE IF IsDict(data.val) /\ IsDict(Get(data.val, "hits"))
        THEN IF iter.raised THEN LoadRaised
             ELSE Loaded(JDict(<< KV("_hits_sources", JList(hit_sources(iter.items))) >>))
        ELSE Loaded(data.val)

\* text_or_obj is a record: kind "text" with the text, or kind "obj" with
\* the structured value.
load_wazuh_alerts_any(text_or_obj) ==
    IF text_or_obj.kind # "text" THEN Loaded(text_or_obj.obj)
    ELSE load_text(text_or_obj.text)

(***************************************************************************)
(* SpecLoad: load_wazuh_alerts_any applied to a text payload of a few      *)
(* lines, or to a structured value.                                        *)
(***************************************************************************)
\* {"a":1}
LineRecord == << "{", "\"", "a", "\"", ":", "1", "}" >>

\* {"hits":{"hits":[{"_source":{"a":1}},{"_source":null},{"b":2},3]}}
LineEnvelope ==
    << "{", "\"", "hits", "\"", ":", "{", "\"", "hits", "\"", ":", "[",
       "{", "\"", "_source", "\"", ":" >> \o LineRecord \o << "}", ",",
       "{", "\"", "_source", "\"", ":", "null", "}", ",",
       "{", "\"", "b", "\"", ":", "2", "}", ",", "3", "]", "}", "}" >>

\* The lines of a payload: records, envelopes whose nested hits is an
\* array, is missing or is null, an array, lines that do not parse alone
\* or at all, the two halves of a record, a blank line.
LoadLines ==
    { LineRecord,
      << " ", "{", "}" >>,
      LineEnvelope,
      << "{", "\"", "hits", "\"", ":", "{", "\"", "a", "\"", ":", "1", "}", "}" >>,
      << "{", "\"", "hits", "\"", ":", "{", "\"", "hits", "\"", ":", "null", "}", "}" >>,
      << "[", "1", ",", " ", "\"", "x", "\"", "]" >>,
      << "{", "\"", "a", "\"" >>,
      << "x" >>,
      << "{", "\"", "a", "\"", ":", "1", "," >>,
      << "\"", "b", "\"", ":", "2", "}" >>,
      << " " >> }

\* "\n".join(lines)
RECURSIVE JoinLines(_)
JoinLines(lines) ==
    IF lines = << >> THEN << >>
    ELSE IF Len(lines) = 1 THEN lines[1]
    ELSE lines[1] \o << "\n" >> \o JoinLines(Tail(lines))

TextPayloads ==
    { [ kind |-> "text", text |-> JoinLines(ls), obj |-> JNull ] :
        ls \in SeqsUpTo(LoadLines, MaxLines) }

ObjectPayloads ==
    { [ kind |-> "obj", text |-> << >>, obj |-> v ] :
        v \in { JNull, JList(<< ExampleRecord >>), ExampleRecord } }

InitLoad ==
    /\ lin \in TextPayloads \cup ObjectPayloads
    /\ lpc = "start"
    /\ lout = JNull
    /\ CoreIdle
    /\ ExtIdle
    /\ RagIdle
    /\ SnippetIdle
    /\ PromptIdle

\* the call returns a value
LoadReturn ==
    /\ lpc = "start"
    /\ ~load_wazuh_alerts_any(lin).raised
    /\ lout' = load_wazuh_alerts_any(lin).val
    /\ lpc' = "done"
    /\ UNCHANGED << lin, coreVars, extVars, ragVars, snippetVars, promptVars >>

\* the call raises: json.JSONDecodeError of line 58, TypeError of line 61
LoadRaise ==
    /\ lpc = "start"
    /\ load_wazuh_alerts_any(lin).raised
    /\ lpc' = "raised"
    /\ UNCHANGED << lin, lout, coreVars, extVars, ragVars, snippetVars, promptVars >>

NextLoad == LoadReturn \/ LoadRaise

SpecLoad == InitLoad /\ [][NextLoad]_vars

(***************************************************************************)
(* Claims about load_wazuh_alerts_any (SpecLoad).                          *)
(***************************************************************************)
\* C15: load never raises on a text input: an empty, blank or unparseable
\* top-level payload yields an empty batch.
C15_LoadNeverRaises ==
    lin.kind = "text" =>
        /\ lpc # "raised"
        /\ (lpc = "done" /\ Strip(lin.text) = << >>) => lout = EmptyDict

\* The lines of a text, read off the positions of its line feeds.
ClaimCuts(text) == { 0, Len(text) + 1 } \cup { i \in DOMAIN text : text[i] = "\n" }

ClaimLineAfter(text, a) ==
    LET b == CHOOSE c \in ClaimCuts(text) :
                 c > a /\ \A d \in ClaimCuts(text) : d > a => c <= d
    IN  SubSeq(text, a + 1, b - 1)

\* The cuts after which a non-blank line starts.
ClaimNonBlankLines(text) ==
    { a \in ClaimCuts(text) \ { Len(text) + 1 } :
        \E i \in DOMAIN ClaimLineAfter(text, a) : ClaimLineAfter(text, a)[i] # " " }

ClaimFirstChar(line) ==
    line[CHOOSE i \in DOMAIN line : line[i] # " " /\ \A k \in 1..(i - 1) : line[k] = " "]

\* More than one non-blank line, each starting with '{'.
ClaimIsStream(text) ==
    /\ Cardinality(ClaimNonBlankLines(text)) > 1
    /\ \A a \in ClaimNonBlankLines(text) : ClaimFirstChar(ClaimLineAfter(text, a)) = "{"

\* The records of the lines that parse, in line order.
ClaimStreamRecords(text) ==
    LET parsing == { a \in ClaimNonBlankLines(text) : json_loads(ClaimLineAfter(text, a)).ok }
        nth(k) == CHOOSE a \in parsing : Cardinality({ b \in parsing : b < a }) = k - 1
    IN  [ k \in 1..Cardinality(parsing) |-> json_loads(ClaimLineAfter(text, nth(k))).val ]

ClaimEnvelope(doc) ==
    /\ doc.t = "dict"
    /\ \E m \in DOMAIN doc.c :
          /\ doc.c[m].k = "hits"
          /\ doc.c[m].v.t = "dict"
          /\ \E n \in DOMAIN doc.c[m].v.c :
                /\ doc.c[m].v.c[n].k = "hits"
                /\ doc.c[m].v.c[n].v.t = "list"
                /\ \A e \in DOMAIN doc.c[m].v.c[n].v.c :
                      LET hit == doc.c[m].v.c[n].v.c[e].v
                      IN  /\ hit.t = "dict"
                          /\ \E s \in DOMAIN hit.c : hit.c[s].k = "_source" /\ hit.c[s].v.t = "dict"

ClaimEnvelopeSources(doc) ==
    LET inner == Get(Get(doc, "hits"), "hits")
    IN  [ e \in DOMAIN inner.c |-> Get(inner.c[e].v, "_source") ]

\* C23: a parsed document becomes a sourced-hits batch only when it has the
\* envelope shape, and the batch is then the list of the _source objects in
\* order; every other parsed document is returned as it is, and so is a
\* structured input.
C23_SourcedHitsOnlyForEnvelope ==
    lpc = "done" =>
        /\ lin.kind = "obj" => lout = lin.obj
        /\ (lin.kind = "text" /\ ~ClaimIsStream(lin.text) /\ json_loads(Strip(lin.text)).ok) =>
              LET doc == json_loads(Strip(lin.text)).val
              IN  IF ClaimEnvelope(doc)
                  THEN lout = JDict(<< KV("_hits_sources", JList(ClaimEnvelopeSources(doc))) >>)
                  ELSE lout = doc

(***************************************************************************)
(* modules/llm.py: build_prompt                                            *)
(*                                                                         *)
(* The prompt is a sequence of lexemes.  The fixed text of the template    *)
(* is cut into lines, and a line around each word Incident, so that every  *)
(* occurrence of that word is a lexeme of its own; its accented letters    *)
(* and arrows are written in ASCII.  The arguments are sequences of        *)
(* characters that hold no line feed, and the lists hold no blank string.  *)
(***************************************************************************)
\* sys, after textwrap.dedent and strip
SysPrompt ==
    << "Tu es un analyste SOC senior specialise en correlation MITRE ATT&CK <-> VERIS <-> incidents.", "\n",
       "\n",
       "[Role]", "\n",
       "Ton role est STRICTEMENT limite a :", "\n",
       "1) Interpreter la chaine Techniques MITRE -> Actions VERIS -> ", "Incident", ".", "\n",
       "2) Expliquer le lien entre chaque technique MITRE et les actions VERIS associees.", "\n",
       "3) Recommandation, remediation ou defense.", "\n",
       "[Interdictions]", "\n",
       "- Ne calcule aucun score, probabilite, priorite ou niveau de risque.", "\n",
       "- N'invente pas de techniques, d'actions ou d'incidents qui ne figurent pas", "\n",
       "  dans les donnees fournies.", "\n",
       "- Si une information manque, ecris << Inconnu >> ou << Non precise >>.", "\n",
       "\n",
       "[Format de sortie OBLIGATOIRE]", "\n",
       "\n",
       "[1. Interpretation de la chaine]", "\n",
       "Explique en 3-6 phrases comment les techniques MITRE observees dans l'alerte", "\n",
       "se relient aux techniques MITRE et aux actions VERIS associees a l'incident, ", "\n",
       "et pourquoi cet incident est coherent avec cette chaine.", "\n",
       "\n",
       "[2. Lien MITRE <-> VERIS]", "\n",
       "Pour chaque technique MITRE pertinente, liste sous forme de puces :", "\n",
       "- Technique MITRE : <ID et nom si possible> ", "\n",
       "  -> Actions VERIS liees : <liste>", "\n",
       "  -> Explication courte (1-2 phrases) du lien logique.", "\n",
       "\n",
       "\n",
       "Ne produis rien en dehors de ces deux sections." >>

\* sep.join(parts)
RECURSIVE Join(_, _)
Join(parts, sep) ==
    IF parts = << >> THEN << >>
    ELSE IF Len(parts) = 1 THEN parts[1]
    ELSE parts[1] \o sep \o Join(Tail(parts), sep)

\* ", ".join(sorted(set(items))) or "(aucune)"
JoinedOrNone(items) ==
    LET joined == Join(SortedSet(Range(items)), << ",", " " >>)
    IN  IF joined # << >> THEN joined ELSE << "(aucune)" >>

\* user, after textwrap.dedent and strip
UserPrompt(a) ==
    << "[", "Incident", "]", "\n", "IRI: " >> \o a.incident_iri
    \o << "\n", "\n", "[Techniques MITRE de l'alerte]", "\n" >> \o JoinedOrNone(a.tech_alert)
    \o << "\n", "\n", "[Techniques MITRE associees a l'incident]", "\n" >>
    \o JoinedOrNone(a.inc_techs)
    \o << "\n", "\n", "[Actions VERIS associees a l'incident]", "\n" >>
    \o JoinedOrNone(a.inc_actions)

\* [chunk.strip() for chunk in knowledge_chunks if chunk and chunk.strip()]
RECURSIVE Snippets(_)
Snippets(chunks) ==
    IF chunks = << >> THEN << >>
    ELSE (IF Strip(Head(chunks)) # << >> THEN << Strip(Head(chunks)) >> ELSE << >>)
         \o Snippets(Tail(chunks))

\* a.knowledge_chunks = << >> stands for None and for the empty list
build_prompt(a) ==
    LET context == IF Strip(a.analyst_context) # << >>
                   THEN << "\n", "\n", "[Contexte analyste]", "\n" >>
                        \o Strip(a.analyst_context)
                   ELSE << >>
        knowledge == IF Snippets(a.knowledge_chunks) # << >>
                     THEN << "\n", "\n", "[Connaissances externes]", "\n" >>
                          \o Join(Snippets(a.knowledge_chunks), << "\n", "\n" >>)
                     ELSE << >>
    IN  SysPrompt \o << "\n", "\n" >> \o UserPrompt(a) \o context \o knowledge

(***************************************************************************)
(* SpecPrompt: build_prompt applied to bounded arguments.                  *)
(***************************************************************************)
PromptArgs ==
    [ incident_iri : StringsUpTo({ "i", "1" }, MaxIriLen),
      tech_alert : { << >>, << << "T", "2" >>, << "T", "1" >>, << "T", "2" >> >> },
      inc_techs : { << >>, << << "T", "1" >> >> },
      inc_actions : { << >>, << << "x" >> >> },
      analyst_context : { << >>, << " " >>, << "n", "o", "t", "e" >>,
                          << " ", "n", " ", "o", "\n" >> },
      knowledge_chunks : { << >>, << << " " >> >>, << << "k" >>, << >>, << " ", "k", " " >> >> } ]

InitPrompt ==
    /\ pargs \in PromptArgs
    /\ ppc = "start"
    /\ prompt = << >>
    /\ CoreIdle
    /\ ExtIdle
    /\ RagIdle
    /\ SnippetIdle
    /\ LoadIdle

BuildPrompt ==
    /\ ppc = "start"
    /\ prompt' = build_prompt(pargs)
    /\ ppc' = "done"
    /\ UNCHANGED << pargs, coreVars, extVars, ragVars, snippetVars, loadVars >>

NextPrompt == BuildPrompt

SpecPrompt == InitPrompt /\ [][NextPrompt]_vars

(***************************************************************************)
(* Claims about build_prompt (SpecPrompt).                                 *)
(***************************************************************************)
\* needle in text
ClaimContains(text, needle) ==
    \E i \in 1..(Len(text) - Len(needle) + 1) :
        SubSeq(text, i, i + Len(needle) - 1) = needle

\* C19: for every incident IRI and every non-blank analyst context, the
\* prompt contains "Incident: " immediately followed by the IRI, and
\* contains the analyst context text.
C19_PromptNamesIncident ==
    (ppc = "done" /\ Strip(pargs.analyst_context) # << >>) =>
        /\ ClaimContains(prompt, << "Incident", ":", " " >> \o pargs.incident_iri)
        /\ ClaimContains(prompt, Strip(pargs.analyst_context))


(***************************************************************************)
(* modules/ontology.py: the supporting operations.  Each one returns the   *)
(* rows of its SPARQL query from inside a try block and walks the edges    *)
(* in the except block.                                                    *)
(***************************************************************************)
\* <{iri}> inside the query text: an IRI holding a blank is no IRIREF and
\* the parser raises.
IriParses(iri) == ~Contains(iri, " ")

\* sorted() on tuples of two strings
PairLess(x, y) == StrLess(x[1], y[1]) \/ (x[1] = y[1] /\ StrLess(x[2], y[2]))

SortedPairs(S) ==
    CHOOSE q \in Orderings(S) :
        \A i, j \in DOMAIN q : i < j => PairLess(q[i], q[j])

\* ?a with <incident> bridge:hasAction ?a, also g.objects(incident, hasAction)
ActionsOf(gr, incident_iri) == Objects(gr, incident_iri, "bridge:hasAction")

\* ?t with <incident> bridge:hasAction/bridge:relatesToTechnique ?t, and the
\* set out of the nested loops of the except block
DeducedOf(gr, incident_iri) ==
    UNION { Objects(gr, a, "bridge:relatesToTechnique") : a \in ActionsOf(gr, incident_iri) }

\* VALUES ?a { ... } ?a bridge:relatesToTechnique ?t, and the pairs appended
\* by the loops of the except block
PairsOf(gr, actions) ==
    UNION { { << actions[k], t >> : t \in Objects(gr, actions[k], "bridge:relatesToTechnique") } :
              k \in DOMAIN actions }

actions_for_incident(gr, incident_iri, fail) ==
    IF fail \/ ~IriParses(incident_iri)
    THEN { [ path |-> "fallback", ret |-> q ] : q \in Orderings(ActionsOf(gr, incident_iri)) }
    ELSE { [ path |-> "primary", ret |-> q ] : q \in Orderings(ActionsOf(gr, incident_iri)) }

techniques_for_incident(gr, incident_iri, fail) ==
    LET found == Objects(gr, incident_iri, "bridge:involvesTechnique")
    IN  IF fail \/ ~IriParses(incident_iri)
        THEN { [ path |-> "fallback", ret |-> q ] : q \in Orderings(found) }
        ELSE { [ path |-> "primary", ret |-> q ] : q \in Orderings(found) }

deduce_incident_techs(gr, incident_iri, fail) ==
    IF fail \/ ~IriParses(incident_iri)
    THEN { [ path |-> "fallback", ret |-> SortedSet(DeducedOf(gr, incident_iri)) ] }
    ELSE { [ path |-> "primary", ret |-> q ] : q \in Orderings(DeducedOf(gr, incident_iri)) }

actions_to_tech_pairs(gr, actions, fail) ==
    IF actions = << >>
    THEN { [ path |-> "empty", ret |-> << >> ] }
    ELSE IF fail \/ \E k \in DOMAIN actions : ~IriParses(actions[k])
    THEN { [ path |-> "fallback", ret |-> SortedPairs(PairsOf(gr, actions)) ] }
    ELSE { [ path |-> "primary", ret |-> q ] : q \in Orderings(PairsOf(gr, actions)) }

(***************************************************************************)
(* SpecSupport: a graph loaded once and read-only, then one call of one    *)
(* supporting operation with any argument.                                 *)
(***************************************************************************)
MaxActions == 2

\* The incidents of the graphs and an IRI holding a blank.
IncidentArgs == IncidentIRIs \cup { << "i", " " >> }

\* The action of the graphs, one the graphs do not hold, and one holding a
\* blank.
ActionArgs == ActionIRIs \cup { << "a", "2" >>, << "a", " " >> }

ActionLists == SeqsUpTo(ActionArgs, MaxActions)

InitSupport ==
    /\ g \in Graphs
    /\ cq = << >>
    /\ cfail = FALSE
    /\ cret = << >>
    /\ cpath = "none"
    /\ SupIdle
    /\ MetaIdle
    /\ AppIdle
    /\ NormIdle
    /\ ExtractIdle
    /\ RagIdle
    /\ SnippetIdle
    /\ LoadIdle
    /\ PromptIdle

SupportReturn(op, arg, raised, r) ==
    /\ sop' = op
    /\ sarg' = arg
    /\ sfail' = raised
    /\ sret' = r.ret
    /\ spath' = r.path
    /\ UNCHANGED << coreVars, metaVars, appVars, ragVars, snippetVars, loadVars, promptVars >>

ActionsForIncident ==
    /\ sop = "none"
    /\ \E incident_iri \in IncidentArgs, fail \in BOOLEAN :
          \E r \in actions_for_incident(g, incident_iri, fail) :
              SupportReturn("actions", incident_iri, r.path = "fallback", r)

TechniquesForIncident ==
    /\ sop = "none"
    /\ \E incident_iri \in IncidentArgs, fail \in BOOLEAN :
          \E r \in techniques_for_incident(g, incident_iri, fail) :
              SupportReturn("techniques", incident_iri, r.path = "fallback", r)

DeduceIncidentTechs ==
    /\ sop = "none"
    /\ \E incident_iri \in IncidentArgs, fail \in BOOLEAN :
          \E r \in deduce_incident_techs(g, incident_iri, fail) :
              SupportReturn("deduce", incident_iri, r.path = "fallback", r)

ActionsToTechPairs ==
    /\ sop = "none"
    /\ \E actions \in ActionLists, fail \in BOOLEAN :
          \E r \in actions_to_tech_pairs(g, actions, fail) :
              SupportReturn("pairs", actions, r.path = "fallback", r)

NextSupport ==
    \/ ActionsForIncident
    \/ TechniquesForIncident
    \/ DeduceIncidentTechs
    \/ ActionsToTechPairs

SpecSupport == InitSupport /\ [][NextSupport]_vars

(***************************************************************************)
(* Claims about the supporting operations (SpecSupport).                   *)
(***************************************************************************)
ClaimPairLess(x, y) ==
    ClaimLexLess(x[1], y[1]) \/ (x[1] = y[1] /\ ClaimLexLess(x[2], y[2]))

\* C21: actionTechniquePairs returns a list of (action, technique) pairs
\* without a duplicate pair and in ascending order, whichever path produced
\* it, and the empty list for an empty list of actions.
C21_PairsSortedNoDuplicates ==
    sop = "pairs" =>
        /\ \A i, j \in DOMAIN sret : i < j => ClaimPairLess(sret[i], sret[j])
        /\ (sarg = << >> => sret = << >>)

\* What each supporting operation is to return, as a set: the nodes (or
\* pairs) the edges of the graph give for the argument.
ClaimSupportSet ==
    CASE sop = "actions" -> { tr.o : tr \in { x \in g : x.s = sarg /\ x.p = "bridge:hasAction" } }
      [] sop = "techniques" ->
            { tr.o : tr \in { x \in g : x.s = sarg /\ x.p = "bridge:involvesTechnique" } }
      [] sop = "deduce" ->
            { tr.o : tr \in { x \in g : /\ x.p = "bridge:relatesToTechnique"
                                        /\ \E y \in g : /\ y.s = sarg
                                                        /\ y.p = "bridge:hasAction"
                                                        /\ y.o = x.s } }
      [] sop = "pairs" ->
            { << tr.s, tr.o >> :
                tr \in { x \in g : /\ x.p = "bridge:relatesToTechnique"
                                   /\ \E k \in DOMAIN sarg : sarg[k] = x.s } }

\* C28: each supporting operation runs its fallback traversal and returns
\* its result when the primary query raised or returned no results, and
\* returns the same set whichever path produced it.
C28_SupportFallbackPolicy ==
    (sop # "none" /\ spath # "empty") =>
        /\ (sfail \/ ClaimSupportSet = { }) => spath = "fallback"
        /\ Range(sret) = ClaimSupportSet


(***************************************************************************)
(* modules/alerts.py: _first_alert_objects, _pick_paths,                   *)
(* extract_alert_metadata, extract_all_alerts_metadata                     *)
(***************************************************************************)
\* for item in value: None and an int cannot be iterated
PyIter(v) ==
    IF v.t \in { "null", "int" } THEN [ raised |-> TRUE, items |-> << >> ]
    ELSE IterableItems(v)

\* [item for item in items if isinstance(item, dict)]
RECURSIVE OnlyDicts(_)
OnlyDicts(items) ==
    IF items = << >> THEN << >>
    ELSE (IF IsDict(Head(items)) THEN << Head(items) >> ELSE << >>) \o OnlyDicts(Tail(items))

first_alert_objects(obj) ==
    LET over(v) == IF PyIter(v).raised THEN [ raised |-> TRUE, items |-> << >> ]
                   ELSE [ raised |-> FALSE, items |-> OnlyDicts(PyIter(v).items) ]
    IN  IF IsDict(obj) /\ HasKey(obj, "_hits_sources") THEN over(Get(obj, "_hits_sources"))
        ELSE IF IsDict(obj) /\ HasKey(obj, "_ndjson") THEN over(Get(obj, "_ndjson"))
        ELSE IF IsList(obj) THEN over(obj)
        ELSE IF IsDict(obj) THEN [ raised |-> FALSE, items |-> << obj >> ]
        ELSE [ raised |-> FALSE, items |-> << >> ]

\* the inner loop of _pick_paths over path.split("."): the keys of a path are
\* held as a sequence
RECURSIVE WalkPath(_, _)
WalkPath(current, keys) ==
    IF keys = << >> THEN [ found |-> TRUE, val |-> current ]
    ELSE IF IsDict(current) /\ HasKey(current, Head(keys))
    THEN WalkPath(Get(current, Head(keys)), Tail(keys))
    ELSE [ found |-> FALSE, val |-> JNull ]

\* None is held as the null node
RECURSIVE pick_paths(_, _)
pick_paths(data, paths) ==
    IF paths = << >> THEN JNull
    ELSE IF WalkPath(data, Head(paths)).found THEN WalkPath(data, Head(paths)).val
    ELSE pick_paths(data, Tail(paths))

TimestampPaths == << << "@timestamp" >>, << "timestamp" >>, << "event", "created" >>,
                     << "event", "ingested" >> >>
RuleIdPaths == << << "rule", "id" >> >>
RuleDescriptionPaths == << << "rule", "description" >>, << "rule", "full_log" >>, << "message" >> >>
AgentPaths == << << "agent", "name" >>, << "host", "name" >> >>
MitrePaths == << << "rule", "mitre", "id" >>, << "mitre", "id" >> >>

\* the dict returned for an alert; the empty dict has empty = TRUE
Metadata(ts, rid, rdesc, agt, mids) ==
    [ empty |-> FALSE, timestamp |-> ts, rule_id |-> rid, rule_description |-> rdesc,
      agent_name |-> agt, rule_mitre_id |-> mids ]

NoMetadata ==
    [ empty |-> TRUE, timestamp |-> JNull, rule_id |-> JNull, rule_description |-> JNull,
      agent_name |-> JNull, rule_mitre_id |-> << >> ]

MetaFailure == [ raised |-> TRUE, val |-> NoMetadata ]

extract_alert_metadata(obj) ==
    LET first == first_alert_objects(obj)
        alert == first.items[1]
        mids == pick_paths(alert, MitrePaths)
    IN  IF first.raised THEN MetaFailure
        ELSE IF first.items = << >> THEN [ raised |-> FALSE, val |-> NoMetadata ]
        ELSE [ raised |-> FALSE,
               val |-> Metadata(pick_paths(alert, TimestampPaths),
                                pick_paths(alert, RuleIdPaths),
                                pick_paths(alert, RuleDescriptionPaths),
                                pick_paths(alert, AgentPaths),
                                IF IsStr(mids) THEN << mids.s >>
                                ELSE IF IsList(mids)
                                THEN [ i \in DOMAIN mids.c |-> PyStr(mids.c[i].v) ]
                                ELSE << >>) ]

extract_all_alerts_metadata(obj) ==
    LET first == first_alert_objects(obj)
        each == [ i \in DOMAIN first.items |-> extract_alert_metadata(first.items[i]) ]
    IN  IF first.raised \/ \E i \in DOMAIN each : each[i].raised
        THEN [ raised |-> TRUE, val |-> << >> ]
        ELSE [ raised |-> FALSE, val |-> [ i \in DOMAIN each |-> each[i].val ] ]

(***************************************************************************)
(* SpecMeta: one call of a metadata extractor on one batch.                *)
(***************************************************************************)
\* Records with the metadata fields at their several paths, with values
\* that are no mappings on a path, and with a null found at a path.
MetaRecords ==
    { JDict(<< KV("@timestamp", JStr(<< "a" >>)), KV("timestamp", JStr(<< "b" >>)) >>),
      JDict(<< KV("timestamp", JNull), KV("event", JDict(<< KV("created", JStr(<< "c" >>)) >>)) >>),
      JDict(<< KV("event", JDict(<< KV("ingested", JInt(7)) >>)),
               KV("host", JDict(<< KV("name", JStr(<< "h" >>)) >>)) >>),
      JDict(<< KV("event", JStr(<< "x" >>)), KV("agent", JList(<< >>)),
               KV("message", JStr(<< "m" >>)) >>),
      JDict(<< KV("rule", JDict(<< KV("id", JInt(7)), KV("full_log", JStr(<< "f" >>)),
                                   KV("mitre", JDict(<< KV("id",
                                       JList(<< JStr(<< "t", "1" >>), JInt(7), JNull >>)) >>)) >>)),
               KV("agent", JDict(<< KV("name", JStr(<< "n" >>)) >>)),
               KV("host", JDict(<< KV("name", JStr(<< "h" >>)) >>)) >>),
      JDict(<< KV("rule", JDict(<< KV("description", JStr(<< "d" >>)),
                                   KV("full_log", JStr(<< "f" >>)) >>)),
               KV("mitre", JDict(<< KV("id", JStr(<< "T", "2" >>)) >>)) >>),
      JDict(<< KV("rule", JStr(<< "x" >>)), KV("mitre", JDict(<< KV("id", JInt(7)) >>)) >>),
      JDict(<< KV("rule", JDict(<< KV("mitre", JDict(<< KV("id", JNull) >>)) >>)),
               KV("mitre", JDict(<< KV("id", JStr(<< "T", "2" >>)) >>)) >>),
      JDict(<< >>) }

\* Alert records that themselves hold a key named like a batch wrapper.
MetaReservedRecords ==
    { JDict(<< KV(key, v) >> \o r.c) :
        key \in { "_ndjson", "_hits_sources" },
        v \in { JList(<< >>), JNull, JStr(<< "x" >>),
                JList(<< JDict(<< KV("timestamp", JStr(<< "z" >>)) >>) >>) },
        r \in { x \in MetaRecords : HasKey(x, "@timestamp") \/ HasKey(x, "host") } }

\* Items of a list-like batch: records, and values that are no mapping.
MetaMembers ==
    { r \in MetaRecords : HasKey(r, "timestamp") \/ HasKey(r, "mitre") }
    \cup { r \in MetaReservedRecords : Truthy(r.c[1].v) /\ HasKey(r, "@timestamp") }
    \cup { JStr(<< "x" >>) }

InitMeta ==
    /\ \/ /\ mshape = "single"
          /\ mrecords \in { << r >> : r \in MetaRecords \cup MetaReservedRecords }
       \/ /\ mshape \in { "list", "ndjson", "hits" }
          /\ mrecords \in SeqsUpTo(MetaMembers, MaxItems)
    /\ mop = "none"
    /\ mpc = "start"
    /\ mout = << >>
    /\ CoreIdle
    /\ SupIdle
    /\ AppIdle
    /\ RagIdle
    /\ SnippetIdle
    /\ LoadIdle
    /\ PromptIdle

MetaReturn(op, r) ==
    /\ mop' = op
    /\ mpc' = IF r.raised THEN "raised" ELSE "done"
    /\ mout' = r.val
    /\ UNCHANGED << mshape, mrecords, coreVars, supVars, appVars, ragVars, snippetVars,
                    loadVars, promptVars >>

\* extract_alert_metadata(obj); the returned dict is held as a list of one
ExtractAlertMetadata ==
    /\ mpc = "start"
    /\ LET r == extract_alert_metadata(BatchObject(mshape, mrecords))
       IN  MetaReturn("one", [ raised |-> r.raised, val |-> << r.val >> ])

\* extract_all_alerts_metadata(obj)
ExtractAllAlertsMetadata ==
    /\ mpc = "start"
    /\ MetaReturn("all", extract_all_alerts_metadata(BatchObject(mshape, mrecords)))

NextMeta == ExtractAlertMetadata \/ ExtractAllAlertsMetadata

SpecMeta == InitMeta /\ [][NextMeta]_vars

(***************************************************************************)
(* Claims about the metadata extractors (SpecMeta).                        *)
(***************************************************************************)
\* the value at a dot-separated path of at most three keys, when every key
\* resolves through nested mappings
ClaimAt(v, keys) ==
    IF Len(keys) = 1 THEN ClaimField(v, keys[1])
    ELSE IF Len(keys) = 2
    THEN UNION { ClaimField(x, keys[2]) : x \in ClaimField(v, keys[1]) }
    ELSE UNION { UNION { ClaimField(y, keys[3]) : y \in ClaimField(x, keys[2]) } :
                 x \in ClaimField(v, keys[1]) }

\* the value at the first path that resolves, None (the null node) when no
\* path does
ClaimFirst(v, paths) ==
    IF \E i \in DOMAIN paths : ClaimAt(v, paths[i]) # { }
    THEN LET i == CHOOSE k \in DOMAIN paths :
                      /\ ClaimAt(v, paths[k]) # { }
                      /\ \A j \in 1..(k - 1) : ClaimAt(v, paths[j]) = { }
         IN  CHOOSE x \in ClaimAt(v, paths[i]) : TRUE
    ELSE [ t |-> "null", s |-> << >>, n |-> 0, c |-> << >> ]

\* The candidate paths of section 4.2, in the listed order.
ClaimPaths ==
    [ timestamp |-> << << "@timestamp" >>, << "timestamp" >>, << "event", "created" >>,
                       << "event", "ingested" >> >>,
      rule_id |-> << << "rule", "id" >> >>,
      rule_description |-> << << "rule", "description" >>, << "rule", "full_log" >>,
                              << "message" >> >>,
      agent_name |-> << << "agent", "name" >>, << "host", "name" >> >>,
      mitre |-> << << "rule", "mitre", "id" >>, << "mitre", "id" >> >> ]

\* technique ids coerced to a list of strings, or empty
ClaimCoerced(v) ==
    IF v.t = "str" THEN << v.s >>
    ELSE IF v.t = "list" THEN [ i \in DOMAIN v.c |-> PyStr(v.c[i].v) ]
    ELSE << >>

\* extractMetadata of one record, read off the record itself
ClaimMetadata(rec) ==
    [ empty |-> FALSE,
      timestamp |-> ClaimFirst(rec, ClaimPaths.timestamp),
      rule_id |-> ClaimFirst(rec, ClaimPaths.rule_id),
      rule_description |-> ClaimFirst(rec, ClaimPaths.rule_description),
      agent_name |-> ClaimFirst(rec, ClaimPaths.agent_name),
      rule_mitre_id |-> ClaimCoerced(ClaimFirst(rec, ClaimPaths.mitre)) ]

\* C25: for every record, extractMetadata gives timestamp, rule id, rule
\* description and agent name the value at the first candidate path that
\* resolves through nested mappings, None when none resolves, and never
\* raises; the technique ids are a list, empty when rule.mitre.id and
\* mitre.id are absent or neither a string nor a list.
C25_MetadataFirstResolvingPath ==
    (mop = "one" /\ mshape = "single") =>
        /\ mpc # "raised"
        /\ mpc = "done" =>
              LET rec == mrecords[1]
                  m == mout[1]
              IN  /\ ~m.empty
                  /\ m.timestamp = ClaimMetadata(rec).timestamp
                  /\ m.rule_id = ClaimMetadata(rec).rule_id
                  /\ m.rule_description = ClaimMetadata(rec).rule_description
                  /\ m.agent_name = ClaimMetadata(rec).agent_name
                  /\ (\A k \in DOMAIN ClaimPaths.mitre :
                        \A v \in ClaimAt(rec, ClaimPaths.mitre[k]) : v.t \notin { "str", "list" })
                        => m.rule_mitre_id = << >>

\* The records of the batch, in batch order: its mappings.
ClaimBatchRecords == SelectSeq(mrecords, LAMBDA r : r.t = "dict")

\* C26: extractAllMetadata returns one entry per record of the batch, in
\* batch order, and the i-th entry is extractMetadata of the i-th record
\* alone, also for a record that holds a key named _ndjson or _hits_sources.
C26_AllMetadataPerRecord ==
    (mop = "all" /\ mpc = "done") =>
        /\ Len(mout) = Len(ClaimBatchRecords)
        /\ \A i \in DOMAIN mout : mout[i] = ClaimMetadata(ClaimBatchRecords[i])

(***************************************************************************)
(* streamlit_app.py: the memoized correlation.  The script runs from top   *)
(* to bottom at every interaction; st.session_state outlives the runs.     *)
(***************************************************************************)
\* extract_tech_ids_universal(obj) as one call: the sorted identifiers of
\* the dict items of the batch, or the exception of the call
tech_ids_of(obj) ==
    LET b == batch_items(obj)
        rs == { collect_tids_from_any(b.items[i]) :
                  i \in { k \in DOMAIN b.items : IsDict(b.items[k]) } }
    IN  IF b.raised \/ \E r \in rs : r.raised THEN [ raised |-> TRUE, val |-> << >> ]
        ELSE [ raised |-> FALSE, val |-> SortedSet(UNION { r.tids : r \in rs }) ]

\* get_incidents_by_tech(g, tech_ids) if tech_ids else []
incidents_of(gr, tech_ids) ==
    IF tech_ids = << >> THEN { << >> }
    ELSE { r.ret : r \in UNION { get_incidents_by_tech(gr, tech_ids, fail) : fail \in BOOLEAN } }

(***************************************************************************)
(* SpecApp: one session over a graph loaded once.  Between two runs the    *)
(* user may put a file into the uploader or take it out; a run may fetch   *)
(* alerts from the API.                                                    *)
(***************************************************************************)
MaxAppTriples == 1

\* The graphs of a session: both incidents, and up to MaxAppTriples edges.
AppGraphs ==
    { { Triple(i, "rdf:type", VerisIncident) : i \in IncidentIRIs } \cup edges :
        edges \in SubsetsUpTo({ tr \in AllTriples : tr.p # "rdf:type" }, MaxAppTriples) }

\* Alerts: with one identifier, with another, empty, without identifiers,
\* one on which the identifier extraction raises, and one on which the
\* metadata extraction raises.
AppAlerts ==
    { JDict(<< KV("rule", JDict(<< KV("mitre", JDict(<< KV("id", JStr(<< "T", "2" >>)) >>)) >>)) >>),
      JDict(<< KV("rule", JDict(<< KV("mitre", JDict(<< KV("id", JStr(<< "t", ".", "1" >>)) >>)) >>)) >>),
      JDict(<< >>),
      JDict(<< KV("message", JStr(<< "x" >>)) >>),
      JDict(<< KV("rule", JStr(<< "x" >>)) >>),
      JDict(<< KV("_ndjson", JNull),
               KV("rule", JDict(<< KV("mitre", JDict(<< KV("id", JStr(<< "T", "2" >>)) >>)) >>)) >>) }

\* The uploader is empty, holds a file that does not load, or a file that
\* loads to an alert.
Uploads ==
    { [ kind |-> "none", obj |-> JNull ], [ kind |-> "bad", obj |-> JNull ] }
    \cup { [ kind |-> "file", obj |-> a ] : a \in AppAlerts }

InitApp ==
    /\ g \in AppGraphs
    /\ cq = << >>
    /\ cfail = FALSE
    /\ cret = << >>
    /\ cpath = "none"
    /\ obj_alert_default \in AppAlerts
    /\ up = [ kind |-> "none", obj |-> JNull ]
    /\ ss_obj_alert = JNull
    /\ ss_tech_ids = << >>
    /\ ss_incidents = << >>
    /\ ss_incidents_cache_key = << >>
    /\ apc = "idle"
    /\ aend = "none"
    /\ NormIdle
    /\ ExtractIdle
    /\ SupIdle
    /\ MetaIdle
    /\ RagIdle
    /\ SnippetIdle
    /\ LoadIdle
    /\ PromptIdle

AppFrame == UNCHANGED << coreVars, supVars, metaVars, ragVars, snippetVars, loadVars,
                         promptVars, obj_alert_default >>

\* between two runs: the user puts a file into the uploader or empties it
ChooseFile ==
    /\ apc = "idle"
    /\ \E u \in Uploads : u # up /\ up' = u
    /\ UNCHANGED << ss_obj_alert, ss_tech_ids, ss_incidents, ss_incidents_cache_key, apc, aend >>
    /\ AppFrame

\* lines 1112-1116: the current alert and its identifiers
RunTop ==
    /\ apc = "idle"
    /\ LET obj_alert == IF Truthy(ss_obj_alert) THEN ss_obj_alert ELSE obj_alert_default
           extracted == tech_ids_of(obj_alert)
       IN  IF ss_tech_ids = << >> /\ extracted.raised
           THEN /\ aend' = "raised"
                /\ UNCHANGED << ss_obj_alert, ss_tech_ids, apc >>
           ELSE /\ ss_obj_alert' = obj_alert
                /\ ss_tech_ids' = IF ss_tech_ids # << >> THEN ss_tech_ids ELSE extracted.val
                /\ IF extract_alert_metadata(obj_alert).raised
                   THEN aend' = "raised" /\ apc' = "idle"
                   ELSE aend' = "running" /\ apc' = "cache"
    /\ UNCHANGED << up, ss_incidents, ss_incidents_cache_key >>
    /\ AppFrame

\* lines 1122-1128: the incidents are computed when the key has changed
RunCache ==
    /\ apc = "cache"
    /\ IF ss_incidents_cache_key # Sorted(ss_tech_ids)
       THEN /\ ss_incidents' \in incidents_of(g, ss_tech_ids)
            /\ ss_incidents_cache_key' = Sorted(ss_tech_ids)
       ELSE UNCHANGED << ss_incidents, ss_incidents_cache_key >>
    /\ apc' = "tabs"
    /\ UNCHANGED << up, ss_obj_alert, ss_tech_ids, aend >>
    /\ AppFrame

\* Mutant: the new alert is stored with its incidents, the key is left.
IngestKeepingKey(obj2, next) ==
    /\ ss_obj_alert' = obj2
    /\ IF tech_ids_of(obj2).raised
       THEN /\ aend' = "raised"
            /\ apc' = "idle"
            /\ UNCHANGED << ss_tech_ids, ss_incidents, ss_incidents_cache_key >>
       ELSE /\ ss_tech_ids' = tech_ids_of(obj2).val
            /\ ss_incidents' \in incidents_of(g, tech_ids_of(obj2).val)
            /\ UNCHANGED ss_incidents_cache_key
            /\ IF extract_alert_metadata(obj2).raised
               THEN aend' = "raised" /\ apc' = "idle"
               ELSE aend' = (IF next = "idle" THEN "completed" ELSE "running") /\ apc' = next

\* lines 1697-1710 and 1756-1766: a new alert replaces the current one, its
\* identifiers, incidents and key are stored; an exception ends the run
Ingest(obj2, next) ==
    /\ ss_obj_alert' = obj2
    /\ IF tech_ids_of(obj2).raised
       THEN /\ aend' = "raised"
            /\ apc' = "idle"
            /\ UNCHANGED << ss_tech_ids, ss_incidents, ss_incidents_cache_key >>
       ELSE /\ ss_tech_ids' = tech_ids_of(obj2).val
            /\ ss_incidents' \in incidents_of(g, tech_ids_of(obj2).val)
            /\ ss_incidents_cache_key' = Sorted(tech_ids_of(obj2).val)
            /\ IF extract_alert_metadata(obj2).raised
               THEN aend' = "raised" /\ apc' = "idle"
               ELSE aend' = (IF next = "idle" THEN "completed" ELSE "running") /\ apc' = next

\* lines 1691-1715: the upload tab
RunUpload ==
    /\ apc = "tabs"
    /\ CASE up.kind = "none" ->
              /\ apc' = "api"
              /\ UNCHANGED << ss_obj_alert, ss_tech_ids, ss_incidents, ss_incidents_cache_key, aend >>
         [] up.kind = "bad" ->
              /\ apc' = "idle"
              /\ aend' = "raised"
              /\ UNCHANGED << ss_obj_alert, ss_tech_ids, ss_incidents, ss_incidents_cache_key >>
         [] up.kind = "file" -> Ingest(up.obj, "api")
    /\ UNCHANGED up
    /\ AppFrame

\* lines 1734-1769: the form was submitted and the API answered with alerts
RunApiFetch ==
    /\ apc = "api"
    /\ \E parsed \in AppAlerts : Ingest(parsed, "idle")
    /\ UNCHANGED up
    /\ AppFrame

\* the form was not submitted, or the call of the API failed
RunNoFetch ==
    /\ apc = "api"
    /\ apc' = "idle"
    /\ aend' = "completed"
    /\ UNCHANGED << up, ss_obj_alert, ss_tech_ids, ss_incidents, ss_incidents_cache_key >>
    /\ AppFrame

NextApp == ChooseFile \/ RunTop \/ RunCache \/ RunUpload \/ RunApiFetch \/ RunNoFetch

SpecApp == InitApp /\ [][NextApp]_vars

(***************************************************************************)
(* Claims about the memoized correlation (SpecApp).                        *)
(***************************************************************************)
\* C30: at the end of each run, completed or ended by an exception, the
\* stored incident list is what get_incidents_by_tech returns for the graph
\* and the stored identifier list (the empty list for no identifier), and
\* the stored key is the sorted tuple of the stored identifier list.
C30_CacheNeverStale ==
    (apc = "idle" /\ aend # "none") =>
        /\ \A i, j \in DOMAIN ss_incidents_cache_key :
              i < j => ~ClaimLexLess(ss_incidents_cache_key[j], ss_incidents_cache_key[i])
        /\ \A x \in Range(ss_tech_ids) \cup Range(ss_incidents_cache_key) :
              Cardinality({ i \in DOMAIN ss_tech_ids : ss_tech_ids[i] = x })
                = Cardinality({ i \in DOMAIN ss_incidents_cache_key : ss_incidents_cache_key[i] = x })
        /\ IF ss_tech_ids = << >> THEN ss_incidents = << >>
           ELSE \E fail \in BOOLEAN :
                   \E r \in get_incidents_by_tech(g, ss_tech_ids, fail) : ss_incidents = r.ret

\* A run has completed after an upload replaced the identifiers of an
\* earlier alert, and incidents are stored for the new ones.
C30_Witness ==
    /\ apc = "idle"
    /\ aend = "completed"
    /\ up.kind = "file"
    /\ ss_obj_alert = up.obj
    /\ ss_obj_alert # obj_alert_default
    /\ tech_ids_of(obj_alert_default).val # << >>
    /\ ss_tech_ids # << >>
    /\ ss_tech_ids # tech_ids_of(obj_alert_default).val
    /\ ss_incidents # << >>

===========================================================================
